---- MODULE Spec2Model ----
(***************************************************************************)
(* Model of the token engine of aigo_service_auth (src/jwt.go):            *)
(* jwtService with its revocation map, the per-identity index, the reverse *)
(* index and the refresh counts.                                           *)
(*                                                                         *)
(* Time is counted in ticks of 1/TicksPerSecond second.  Token strings are *)
(* records: what matters of a compact JWT is whether it is well formed,    *)
(* which key signed it, and the claims user_id, jti and exp.  The nbf and   *)
(* iat claims are left out: they are set to the time of issue, the clock   *)
(* never runs backwards, and so the not-before check never fails.          *)
(* GenerateJTI draws 128 random bits; the model draws a jti that was never *)
(* used before (the spec's "unique per issuance").                         *)
(***************************************************************************)
EXTENDS Integers, Sequences, FiniteSets, TLC

\* ---------------------------------------------------------------- bounds
MaxUser == 2
MaxTokens == 2
MaxTime == 3
MaxTTL == 3
MaxRefreshBound == 1
TicksPerSecond == 2
MaxCallers == 2

UserIDs == 0..MaxUser
\* the goroutines that call roleService at the same time
Callers == 1..MaxCallers
\* a duration below one second and one above it
Durations == {1, MaxTTL}

\* ------------------------------------------------------------ token strings
NoExp == -1

EmptyToken ==
  [kind |-> "empty", key |-> "none", user |-> 0, jti |-> 0, exp |-> NoExp]

MalformedToken ==
  [kind |-> "malformed", key |-> "none", user |-> 0, jti |-> 0, exp |-> NoExp]

\* a token signed with the service's key that carries no exp claim
NoExpToken ==
  [kind |-> "jwt", key |-> "svc", user |-> 1, jti |-> 0, exp |-> NoExp]

\* a well-formed token whose signature was not made with the service's key
ForgedToken ==
  [kind |-> "jwt", key |-> "other", user |-> 1, jti |-> 0, exp |-> TicksPerSecond]

ForeignTokens == {MalformedToken, NoExpToken, ForgedToken}

\* a token signed with the service's key that carries user id 0 and no exp
ZeroUserToken ==
  [kind |-> "jwt", key |-> "svc", user |-> 0, jti |-> 0, exp |-> NoExp]

\* jwt.NewNumericDate truncates a time to whole seconds
NewNumericDate(t) == t - (t % TicksPerSecond)

\* the string GenerateTokenWithExpiration signs at time t
SignedString(userID, expiration, t, jti) ==
  [kind |-> "jwt", key |-> "svc", user |-> userID, jti |-> jti,
   exp |-> NewNumericDate(t + expiration)]

\* ------------------------------------------------------------------ maps
Lookup(m, k, default) == IF k \in DOMAIN m THEN m[k] ELSE default

Put(m, k, v) == [x \in DOMAIN m \cup {k} |-> IF x = k THEN v ELSE m[x]]

Delete(m, k) == [x \in DOMAIN m \ {k} |-> m[x]]

EmptyMap == [x \in {} |-> 0]

Range(s) == {s[i] : i \in DOMAIN s}

VARIABLES
  config,          \* JWTConfig, fixed at construction
  now,             \* the clock read by time.Now()
  revokedTokens,   \* token -> revocation time
  userTokens,      \* user id -> list of tokens
  tokenUsers,      \* token -> user id
  refreshCounts,   \* token -> refresh count
  foreign,         \* a string the caller holds that the service did not issue
  everRevoked,     \* history: the tokens whose revocation has succeeded
  lineage,         \* history: issued token -> its root, depth and chain flag
  refreshing       \* a RefreshToken call in flight: its position and locals

\* the user table, the session tokens of the simple tokenService, and the
\* assignment tables of roleService
VARIABLES
  sysUsers,        \* sys_users: the rows in order of creation
  sessionRevoked,  \* tokenService.revokedTokens
  sessionTokens,   \* history: the tokens tokenService has returned
  userRoles,       \* sys_user_roles: rows <<user id, role id>>
  rolePermissions, \* sys_role_permissions: rows <<role id, permission id>>
  assigning,       \* caller -> the Assign call it is in, between lookup and Create
  histories,       \* MemoryHistoryStorage.histories: user id -> stored entries
  gen,             \* the GeneratePassword call in progress and its call stack
  checked,         \* the CheckStrength / ValidatePolicy call made and its result
  manager,         \* passwordManager: config, hasher.cost, the checker's flag
  managing,        \* the calls of passwordManager between two of their steps
  changed          \* history: user id -> the passwords ChangePassword has set

jwtVars ==
  <<config, revokedTokens, userTokens, tokenUsers, refreshCounts,
    foreign, everRevoked, lineage, refreshing>>

accountVars == <<sysUsers, sessionRevoked, sessionTokens>>

roleVars == <<userRoles, rolePermissions, assigning>>

passwordVars == <<histories, gen, checked, manager, managing, changed>>

\* what jwtService does not touch
notJWT == <<accountVars, roleVars, passwordVars>>

vars == <<now, jwtVars, accountVars, roleVars, passwordVars>>

\* the tokens the service has returned, and the number of JTIs used
issued == DOMAIN lineage

nextJTI == Cardinality(issued)

\* the four maps of jwtService as one value
Maps ==
  [revokedTokens |-> revokedTokens, userTokens |-> userTokens,
   tokenUsers |-> tokenUsers, refreshCounts |-> refreshCounts]

\* ------------------------------------------------------------ pure parts
\* mutant: the expiry check rejects a token one tick before it expires
ParseToken_Early(tokenString, t) ==
  IF tokenString = EmptyToken THEN [err |-> "empty_token", userID |-> 0]
  ELSE IF tokenString.kind # "jwt" THEN [err |-> "parse_malformed", userID |-> 0]
  ELSE IF tokenString.key # "svc" THEN [err |-> "parse_signature", userID |-> 0]
  ELSE IF tokenString.exp # NoExp /\ ~(t + 1 < tokenString.exp)
    THEN [err |-> "parse_expired", userID |-> 0]
  ELSE [err |-> "nil", userID |-> tokenString.user]

\* ParseToken: jwt.ParseWithClaims with the service's key, at time t
ParseToken(tokenString, t) ==
  IF tokenString = EmptyToken THEN [err |-> "empty_token", userID |-> 0]
  ELSE IF tokenString.kind # "jwt" THEN [err |-> "parse_malformed", userID |-> 0]
  ELSE IF tokenString.key # "svc" THEN [err |-> "parse_signature", userID |-> 0]
  ELSE IF tokenString.exp # NoExp /\ ~(t < tokenString.exp)
    THEN [err |-> "parse_expired", userID |-> 0]
  ELSE [err |-> "nil", userID |-> tokenString.user]

\* parseTokenUnsafe: jwt.Parser.ParseUnverified, no signature and no claim check
parseTokenUnsafe(tokenString) ==
  IF tokenString.kind # "jwt" THEN [err |-> "parse_malformed"] ELSE [err |-> "nil"]

IsTokenRevoked(S, tokenString) == tokenString \in DOMAIN S.revokedTokens

\* mutant: the string is parsed before the revocation map is looked at
ValidateToken_ParseFirst(S, tokenString, t) ==
  IF tokenString = EmptyToken THEN [err |-> "empty_token", userID |-> 0]
  ELSE IF ParseToken(tokenString, t).err # "nil" THEN ParseToken(tokenString, t)
  ELSE IF IsTokenRevoked(S, tokenString) THEN [err |-> "revoked", userID |-> 0]
  ELSE ParseToken(tokenString, t)

ValidateToken(S, tokenString, t) ==
  IF tokenString = EmptyToken THEN [err |-> "empty_token", userID |-> 0]
  ELSE IF IsTokenRevoked(S, tokenString) THEN [err |-> "revoked", userID |-> 0]
  ELSE ParseToken(tokenString, t)

\* mutant: the list of the user is replaced, not appended to
GenerateTokenWithExpiration_LostUpdate(S, userID, expiration, t, jti) ==
  IF userID = 0 THEN [err |-> "invalid_user", token |-> EmptyToken, maps |-> S]
  ELSE IF expiration <= 0
    THEN [err |-> "invalid_expiration", token |-> EmptyToken, maps |-> S]
  ELSE LET tokenString == SignedString(userID, expiration, t, jti) IN
    [err |-> "nil", token |-> tokenString,
     maps |-> [S EXCEPT
       !.userTokens = Put(@, userID, <<tokenString>>),
       !.tokenUsers = Put(@, tokenString, userID)]]

GenerateTokenWithExpiration(S, userID, expiration, t, jti) ==
  IF userID = 0 THEN [err |-> "invalid_user", token |-> EmptyToken, maps |-> S]
  ELSE IF expiration <= 0
    THEN [err |-> "invalid_expiration", token |-> EmptyToken, maps |-> S]
  ELSE LET tokenString == SignedString(userID, expiration, t, jti) IN
    [err |-> "nil", token |-> tokenString,
     maps |-> [S EXCEPT
       !.userTokens = Put(@, userID, Append(Lookup(@, userID, <<>>), tokenString)),
       !.tokenUsers = Put(@, tokenString, userID)]]

GenerateToken(S, cfg, userID, t, jti) ==
  GenerateTokenWithExpiration(S, userID, cfg.DefaultExpiration, t, jti)

\* mutant: the reverse index keeps the revoked token
RevokeToken_KeepsReverse(S, tokenString, t) ==
  IF tokenString = EmptyToken THEN [err |-> "empty_token", maps |-> S]
  ELSE LET exists == tokenString \in DOMAIN S.tokenUsers
           userID == Lookup(S.tokenUsers, tokenString, 0)
           newTokens(tokens) == SelectSeq(tokens, LAMBDA token : token # tokenString)
       IN [err |-> "nil",
           maps |-> [S EXCEPT
             !.revokedTokens = Put(@, tokenString, t),
             !.userTokens =
               IF exists /\ userID \in DOMAIN @
                 THEN Put(@, userID, newTokens(@[userID])) ELSE @,
             !.refreshCounts = Delete(@, tokenString)]]

\* mutant: a token that is already revoked is left as it is
RevokeToken_Guarded(S, tokenString, t) ==
  IF tokenString = EmptyToken THEN [err |-> "empty_token", maps |-> S]
  ELSE IF tokenString \in DOMAIN S.revokedTokens THEN [err |-> "nil", maps |-> S]
  ELSE LET exists == tokenString \in DOMAIN S.tokenUsers
           userID == Lookup(S.tokenUsers, tokenString, 0)
           newTokens(tokens) == SelectSeq(tokens, LAMBDA token : token # tokenString)
       IN [err |-> "nil",
           maps |-> [S EXCEPT
             !.revokedTokens = Put(@, tokenString, t),
             !.userTokens =
               IF exists /\ userID \in DOMAIN @
                 THEN Put(@, userID, newTokens(@[userID])) ELSE @,
             !.tokenUsers = Delete(@, tokenString),
             !.refreshCounts = Delete(@, tokenString)]]

RevokeToken(S, tokenString, t) ==
  IF tokenString = EmptyToken THEN [err |-> "empty_token", maps |-> S]
  ELSE LET exists == tokenString \in DOMAIN S.tokenUsers
           userID == Lookup(S.tokenUsers, tokenString, 0)
           newTokens(tokens) == SelectSeq(tokens, LAMBDA token : token # tokenString)
       IN [err |-> "nil",
           maps |-> [S EXCEPT
             !.revokedTokens = Put(@, tokenString, t),
             !.userTokens =
               IF exists /\ userID \in DOMAIN @
                 THEN Put(@, userID, newTokens(@[userID])) ELSE @,
             !.tokenUsers = Delete(@, tokenString),
             !.refreshCounts = Delete(@, tokenString)]]

\* mutant: a token counts as expired at its expiry time already
expiredTokens_AtExpiry(S, t) ==
  {tokenString \in DOMAIN S.revokedTokens :
     \/ parseTokenUnsafe(tokenString).err # "nil"
     \/ tokenString.exp # NoExp /\ tokenString.exp <= t}

\* mutant: every revoked string is collected, expired or not
expiredTokens_All(S, t) == DOMAIN S.revokedTokens

\* mutant: a token without an expiry counts as expired
expiredTokens_NoExpiry(S, t) ==
  {tokenString \in DOMAIN S.revokedTokens :
     \/ parseTokenUnsafe(tokenString).err # "nil"
     \/ tokenString.exp = NoExp
     \/ tokenString.exp < t}

\* the revoked strings CleanupExpiredTokens collects at time t
expiredTokens(S, t) ==
  {tokenString \in DOMAIN S.revokedTokens :
     \/ parseTokenUnsafe(tokenString).err # "nil"
     \/ tokenString.exp # NoExp /\ tokenString.exp < t}

CleanupExpiredTokens(S, t) ==
  [err |-> "nil",
   maps |-> [S EXCEPT
     !.revokedTokens = [x \in DOMAIN @ \ expiredTokens(S, t) |-> @[x]]]]

\* mutant: the reverse index keeps the tokens of the user
RevokeAllUserTokens_KeepsReverse(S, userID, t) ==
  IF userID = 0 THEN [err |-> "invalid_user", maps |-> S]
  ELSE IF userID \notin DOMAIN S.userTokens THEN [err |-> "nil", maps |-> S]
  ELSE LET tokens == Range(S.userTokens[userID]) IN
    [err |-> "nil",
     maps |-> [S EXCEPT
       !.revokedTokens = [x \in DOMAIN @ \cup tokens |-> IF x \in tokens THEN t ELSE @[x]],
       !.refreshCounts = [x \in DOMAIN @ \ tokens |-> @[x]],
       !.userTokens = Delete(@, userID)]]

RevokeAllUserTokens(S, userID, t) ==
  IF userID = 0 THEN [err |-> "invalid_user", maps |-> S]
  ELSE IF userID \notin DOMAIN S.userTokens THEN [err |-> "nil", maps |-> S]
  ELSE LET tokens == Range(S.userTokens[userID]) IN
    [err |-> "nil",
     maps |-> [S EXCEPT
       !.revokedTokens = [x \in DOMAIN @ \cup tokens |-> IF x \in tokens THEN t ELSE @[x]],
       !.tokenUsers = [x \in DOMAIN @ \ tokens |-> @[x]],
       !.refreshCounts = [x \in DOMAIN @ \ tokens |-> @[x]],
       !.userTokens = Delete(@, userID)]]

\* mutant: the window is open before expiry - RefreshExpiration and shut after
TooEarly_Inverted(cfg, tokenString, t) ==
  tokenString.exp # NoExp /\ t > tokenString.exp - cfg.RefreshExpiration

\* the refresh window check of RefreshToken (jwt.go 319-324)
TooEarly(cfg, tokenString, t) ==
  tokenString.exp # NoExp /\ t < tokenString.exp - cfg.RefreshExpiration

\* mutant: the original token is not revoked
RefreshToken_NoRevoke(S, cfg, tokenString, t, jti) ==
  IF ~cfg.AllowRefresh
    THEN [err |-> "refresh_disabled", token |-> EmptyToken, maps |-> S]
  ELSE IF tokenString = EmptyToken
    THEN [err |-> "empty_token", token |-> EmptyToken, maps |-> S]
  ELSE LET claims == ParseToken(tokenString, t) IN
    IF claims.err # "nil"
      THEN [err |-> claims.err, token |-> EmptyToken, maps |-> S]
    ELSE LET refreshCount == Lookup(S.refreshCounts, tokenString, 0) IN
      IF refreshCount >= cfg.MaxRefreshCount
        THEN [err |-> "refresh_limit", token |-> EmptyToken, maps |-> S]
      ELSE IF TooEarly(cfg, tokenString, t)
        THEN [err |-> "refresh_too_early", token |-> EmptyToken, maps |-> S]
      ELSE LET g == GenerateToken(S, cfg, claims.userID, t, jti) IN
        IF g.err # "nil"
          THEN [err |-> "generate_failed", token |-> EmptyToken, maps |-> S]
        ELSE [err |-> "nil", token |-> g.token,
              maps |-> [g.maps EXCEPT
                !.refreshCounts = Put(@, g.token, refreshCount + 1)]]

\* mutant: the limit is compared with > in place of >=
RefreshToken_OffByOne(S, cfg, tokenString, t, jti) ==
  IF ~cfg.AllowRefresh
    THEN [err |-> "refresh_disabled", token |-> EmptyToken, maps |-> S]
  ELSE IF tokenString = EmptyToken
    THEN [err |-> "empty_token", token |-> EmptyToken, maps |-> S]
  ELSE LET claims == ParseToken(tokenString, t) IN
    IF claims.err # "nil"
      THEN [err |-> claims.err, token |-> EmptyToken, maps |-> S]
    ELSE LET refreshCount == Lookup(S.refreshCounts, tokenString, 0) IN
      IF refreshCount > cfg.MaxRefreshCount
        THEN [err |-> "refresh_limit", token |-> EmptyToken, maps |-> S]
      ELSE IF TooEarly(cfg, tokenString, t)
        THEN [err |-> "refresh_too_early", token |-> EmptyToken, maps |-> S]
      ELSE LET g == GenerateToken(S, cfg, claims.userID, t, jti) IN
        IF g.err # "nil"
          THEN [err |-> "generate_failed", token |-> EmptyToken, maps |-> S]
        ELSE LET counted ==
                   [g.maps EXCEPT !.refreshCounts = Put(@, g.token, refreshCount + 1)]
                 r == RevokeToken(counted, tokenString, t)
             IN [err |-> "nil", token |-> g.token, maps |-> r.maps]

\* mutant: the new token is generated before the refresh window is looked at
RefreshToken_GenerateFirst(S, cfg, tokenString, t, jti) ==
  IF ~cfg.AllowRefresh
    THEN [err |-> "refresh_disabled", token |-> EmptyToken, maps |-> S]
  ELSE IF tokenString = EmptyToken
    THEN [err |-> "empty_token", token |-> EmptyToken, maps |-> S]
  ELSE LET claims == ParseToken(tokenString, t) IN
    IF claims.err # "nil"
      THEN [err |-> claims.err, token |-> EmptyToken, maps |-> S]
    ELSE LET refreshCount == Lookup(S.refreshCounts, tokenString, 0) IN
      IF refreshCount >= cfg.MaxRefreshCount
        THEN [err |-> "refresh_limit", token |-> EmptyToken, maps |-> S]
      ELSE LET g == GenerateToken(S, cfg, claims.userID, t, jti) IN
        IF g.err # "nil"
          THEN [err |-> "generate_failed", token |-> EmptyToken, maps |-> S]
        ELSE IF TooEarly(cfg, tokenString, t)
          THEN [err |-> "refresh_too_early", token |-> EmptyToken, maps |-> g.maps]
        ELSE LET counted ==
                   [g.maps EXCEPT !.refreshCounts = Put(@, g.token, refreshCount + 1)]
                 r == RevokeToken(counted, tokenString, t)
             IN [err |-> "nil", token |-> g.token, maps |-> r.maps]

\* RefreshToken (jwt.go 294-348), all of its critical sections in one step
\* mutant: the old token is validated, revocation included
RefreshToken_Validates(S, cfg, tokenString, t, jti) ==
  IF ~cfg.AllowRefresh
    THEN [err |-> "refresh_disabled", token |-> EmptyToken, maps |-> S]
  ELSE IF tokenString = EmptyToken
    THEN [err |-> "empty_token", token |-> EmptyToken, maps |-> S]
  ELSE LET claims == ValidateToken(S, tokenString, t) IN
    IF claims.err # "nil"
      THEN [err |-> claims.err, token |-> EmptyToken, maps |-> S]
    ELSE LET refreshCount == Lookup(S.refreshCounts, tokenString, 0) IN
      IF refreshCount >= cfg.MaxRefreshCount
        THEN [err |-> "refresh_limit", token |-> EmptyToken, maps |-> S]
      ELSE IF TooEarly(cfg, tokenString, t)
        THEN [err |-> "refresh_too_early", token |-> EmptyToken, maps |-> S]
      ELSE LET g == GenerateToken(S, cfg, claims.userID, t, jti) IN
        IF g.err # "nil"
          THEN [err |-> "generate_failed", token |-> EmptyToken, maps |-> S]
        ELSE LET counted ==
                   [g.maps EXCEPT !.refreshCounts = Put(@, g.token, refreshCount + 1)]
                 r == RevokeToken(counted, tokenString, t)
             IN IF r.err # "nil"
                  THEN [err |-> "revoke_failed", token |-> EmptyToken,
                        maps |-> [counted EXCEPT
                                    !.refreshCounts = Delete(@, g.token)]]
                  ELSE [err |-> "nil", token |-> g.token, maps |-> r.maps]

RefreshToken(S, cfg, tokenString, t, jti) ==
  IF ~cfg.AllowRefresh
    THEN [err |-> "refresh_disabled", token |-> EmptyToken, maps |-> S]
  ELSE IF tokenString = EmptyToken
    THEN [err |-> "empty_token", token |-> EmptyToken, maps |-> S]
  ELSE LET claims == ParseToken(tokenString, t) IN
    IF claims.err # "nil"
      THEN [err |-> claims.err, token |-> EmptyToken, maps |-> S]
    ELSE LET refreshCount == Lookup(S.refreshCounts, tokenString, 0) IN
      IF refreshCount >= cfg.MaxRefreshCount
        THEN [err |-> "refresh_limit", token |-> EmptyToken, maps |-> S]
      ELSE IF TooEarly(cfg, tokenString, t)
        THEN [err |-> "refresh_too_early", token |-> EmptyToken, maps |-> S]
      ELSE LET g == GenerateToken(S, cfg, claims.userID, t, jti) IN
        IF g.err # "nil"
          THEN [err |-> "generate_failed", token |-> EmptyToken, maps |-> S]
        ELSE LET counted ==
                   [g.maps EXCEPT !.refreshCounts = Put(@, g.token, refreshCount + 1)]
                 r == RevokeToken(counted, tokenString, t)
             IN IF r.err # "nil"
                  THEN [err |-> "revoke_failed", token |-> EmptyToken,
                        maps |-> [counted EXCEPT
                                    !.refreshCounts = Delete(@, g.token)]]
                  ELSE [err |-> "nil", token |-> g.token, maps |-> r.maps]

\* ---------------------------------------------------------- state machine
\* RefreshToken returns before it reads MaxRefreshCount or RefreshExpiration
\* when AllowRefresh is off: one value of each is enough there
Configs ==
  {c \in [AllowRefresh : BOOLEAN, MaxRefreshCount : 0..MaxRefreshBound,
          DefaultExpiration : Durations, RefreshExpiration : Durations] :
     ~c.AllowRefresh => c.MaxRefreshCount = 0 /\ c.RefreshExpiration = 1}

\* no call of the password generator or checkers has been made
NoCall == [status |-> "idle"]

\* no RefreshToken call is between two of its critical sections
Idle == [pc |-> "idle"]

\* bcrypt.MinCost, bcrypt.MaxCost, bcrypt.DefaultCost
MinCost == 4
MaxCost == 31
DefaultCost == 10

\* NewPasswordHasher: the cost of the hasher it returns
NewPasswordHasher(cost) ==
  IF cost < MinCost \/ cost > MaxCost THEN DefaultCost ELSE cost

\* DefaultPasswordManagerConfig, without the fields of the generator and of
\* the default policy
DefaultPasswordManagerConfig ==
  [BcryptCost |-> 12, MinStrengthScore |-> 60, EnableDictionaryCheck |-> TRUE,
   HistoryCount |-> 5]

\* the config of a caller that passes nil
NilConfig == [BcryptCost |-> 0, MinStrengthScore |-> 0,
              EnableDictionaryCheck |-> FALSE, HistoryCount |-> -1]

\* NewPasswordManager: the config kept, the hasher and the strength checker
\* built from it
NewPasswordManager(managerConfig) ==
  LET kept == IF managerConfig = NilConfig THEN DefaultPasswordManagerConfig
              ELSE managerConfig
  IN  [config |-> kept,
       cost |-> NewPasswordHasher(kept.BcryptCost),
       enableDictionaryCheck |-> kept.EnableDictionaryCheck]

\* NewJWTService: empty maps, the configuration as given
JWTInitWith(configs, foreigns) ==
  /\ config \in configs
  /\ foreign \in foreigns
  /\ now = 0
  /\ revokedTokens = EmptyMap
  /\ userTokens = EmptyMap
  /\ tokenUsers = EmptyMap
  /\ refreshCounts = EmptyMap
  /\ everRevoked = {}
  /\ lineage = EmptyMap
  /\ refreshing = Idle
  /\ sysUsers = <<>>
  /\ sessionRevoked = {}
  /\ sessionTokens = {}
  /\ userRoles = <<>>
  /\ rolePermissions = <<>>
  /\ assigning = [c \in Callers |-> Idle]
  /\ histories = EmptyMap
  /\ gen = NoCall
  /\ checked = NoCall
  /\ manager = NewPasswordManager(NilConfig)
  /\ managing = <<>>
  /\ changed = EmptyMap

JWTInit(foreigns) == JWTInitWith(Configs, foreigns)

\* the strings a caller can present: the empty one, a foreign one, issued ones
TokenArgs == {EmptyToken, foreign} \cup issued

Commit(m) ==
  /\ revokedTokens' = m.revokedTokens
  /\ userTokens' = m.userTokens
  /\ tokenUsers' = m.tokenUsers
  /\ refreshCounts' = m.refreshCounts

\* the revocations a call has made are remembered
Remember(m) == everRevoked' = everRevoked \cup DOMAIN m.revokedTokens

\* history of a token: the issuance its lineage is rooted at, the number of
\* refreshes that lead to it, and whether each of them was applied to the
\* token the previous one returned, which had never been revoked
RootOf(tokenString) ==
  IF tokenString \in DOMAIN lineage THEN lineage[tokenString].root ELSE tokenString

DepthOf(tokenString) ==
  IF tokenString \in DOMAIN lineage THEN lineage[tokenString].depth ELSE 0

OnChain(tokenString) ==
  /\ tokenString \in DOMAIN lineage => lineage[tokenString].chain
  /\ tokenString \notin everRevoked

\* the clock advances
Tick ==
  /\ now < MaxTime
  /\ now' = now + 1
  /\ UNCHANGED <<notJWT, refreshing, config, foreign, revokedTokens, userTokens, tokenUsers,
                 refreshCounts, everRevoked, lineage>>

\* the number of tokens still to be issued by the RefreshToken call in flight
Reserved == IF refreshing.pc \in {"window", "generate"} THEN 1 ELSE 0

DoGenerate(userID, expiration, cap) ==
  LET r == GenerateTokenWithExpiration(Maps, userID, expiration, now, nextJTI + 1) IN
    /\ r.err = "nil" => nextJTI + Reserved < cap
    /\ Commit(r.maps)
    /\ IF r.err = "nil"
         THEN lineage' = Put(lineage, r.token,
                             [root |-> r.token, depth |-> 0, chain |-> TRUE])
         ELSE UNCHANGED lineage
    /\ UNCHANGED <<notJWT, refreshing, config, foreign, now, everRevoked>>

DoGenerateToken(users, cap) ==
  \E userID \in users : DoGenerate(userID, config.DefaultExpiration, cap)

DoGenerateTokenWithExpiration(users, cap) ==
  \E userID \in users, expiration \in {-1, 0} \cup Durations :
    DoGenerate(userID, expiration, cap)

DoRevokeToken ==
  \E tokenString \in TokenArgs :
    LET r == RevokeToken(Maps, tokenString, now) IN
      /\ Commit(r.maps)
      /\ Remember(r.maps)
      /\ UNCHANGED <<notJWT, refreshing, config, foreign, now, lineage>>

DoRevokeAllUserTokens(users) ==
  \E userID \in users :
    LET r == RevokeAllUserTokens(Maps, userID, now) IN
      /\ Commit(r.maps)
      /\ Remember(r.maps)
      /\ UNCHANGED <<notJWT, refreshing, config, foreign, now, lineage>>

DoCleanupExpiredTokens ==
  LET r == CleanupExpiredTokens(Maps, now) IN
    /\ Commit(r.maps)
    /\ UNCHANGED <<notJWT, refreshing, config, foreign, now, everRevoked, lineage>>

DoRefreshToken(cap) ==
  \E tokenString \in TokenArgs :
    LET r == RefreshToken(Maps, config, tokenString, now, nextJTI + 1) IN
      /\ r.err = "nil" => nextJTI < cap
      /\ Commit(r.maps)
      /\ Remember(r.maps)
      /\ IF r.err = "nil"
           THEN lineage' = Put(lineage, r.token,
                               [root |-> RootOf(tokenString),
                                depth |-> DepthOf(tokenString) + 1,
                                chain |-> OnChain(tokenString)])
           ELSE UNCHANGED lineage
      /\ UNCHANGED <<notJWT, refreshing, config, foreign, now>>

\* RefreshToken taken one critical section at a time, the other handlers
\* running in between.  First the parse and the read of the refresh count
\* under the read lock; a call that fails here returns and changes nothing.
RefreshRead(cap) ==
  \E tokenString \in TokenArgs :
    /\ refreshing = Idle
    /\ nextJTI < cap
    /\ config.AllowRefresh
    /\ tokenString # EmptyToken
    /\ ParseToken(tokenString, now).err = "nil"
    /\ Lookup(refreshCounts, tokenString, 0) < config.MaxRefreshCount
    /\ refreshing' = [pc |-> "window", old |-> tokenString,
                      refreshCount |-> Lookup(refreshCounts, tokenString, 0)]
    /\ UNCHANGED <<notJWT, config, foreign, now, revokedTokens, userTokens, tokenUsers,
                   refreshCounts, everRevoked, lineage>>

\* the refresh window, at the time read now; too early a call returns
RefreshWindow ==
  /\ refreshing.pc = "window"
  /\ refreshing' = IF TooEarly(config, refreshing.old, now)
                     THEN Idle
                     ELSE [refreshing EXCEPT !.pc = "generate"]
  /\ UNCHANGED <<notJWT, config, foreign, now, revokedTokens, userTokens, tokenUsers,
                 refreshCounts, everRevoked, lineage>>

\* GenerateToken for the identity the old token carries
RefreshGenerate ==
  /\ refreshing.pc = "generate"
  /\ LET g == GenerateToken(Maps, config, refreshing.old.user, now, nextJTI + 1) IN
       /\ Commit(g.maps)
       /\ lineage' = Put(lineage, g.token,
                         [root |-> RootOf(refreshing.old),
                          depth |-> DepthOf(refreshing.old) + 1,
                          chain |-> OnChain(refreshing.old)])
       /\ refreshing' = [pc |-> "count", old |-> refreshing.old,
                         refreshCount |-> refreshing.refreshCount,
                         newToken |-> g.token]
  /\ UNCHANGED <<notJWT, config, foreign, now, everRevoked>>

\* the count of the new token, from the count read at the start
RefreshCount ==
  /\ refreshing.pc = "count"
  /\ refreshCounts' = Put(refreshCounts, refreshing.newToken,
                          refreshing.refreshCount + 1)
  /\ refreshing' = [refreshing EXCEPT !.pc = "revoke"]
  /\ UNCHANGED <<notJWT, config, foreign, now, revokedTokens, userTokens, tokenUsers,
                 everRevoked, lineage>>

\* RevokeToken of the old token, and the return of the new one
RefreshRevoke ==
  /\ refreshing.pc = "revoke"
  /\ LET r == RevokeToken(Maps, refreshing.old, now) IN
       /\ Commit(r.maps)
       /\ Remember(r.maps)
  /\ refreshing' = Idle
  /\ UNCHANGED <<notJWT, config, foreign, now, lineage>>

\* ValidateToken reads the revocation map under the read lock and parses the
\* string; it writes nothing
DoValidateToken ==
  \E tokenString \in TokenArgs :
    /\ ValidateToken(Maps, tokenString, now).userID \in UserIDs
    /\ UNCHANGED vars

\* ParseToken and IsTokenRevoked read the clock and the maps and write
\* nothing: they are the operators above, applied to the state
JWTNext(users, cap) ==
  \/ DoValidateToken
  \/ Tick
  \/ DoGenerateToken(users, cap)
  \/ DoGenerateTokenWithExpiration(users, cap)
  \/ DoRevokeToken
  \/ DoRevokeAllUserTokens(users)
  \/ DoCleanupExpiredTokens
  \/ DoRefreshToken(cap)

\* one identity, every kind of foreign string
Init == JWTInit(ForeignTokens)

Next == JWTNext(0..1, MaxTokens)

Spec == Init /\ [][Next]_vars

\* several identities
InitUsers == JWTInit({ForgedToken})

NextUsers == JWTNext(UserIDs, MaxTokens)

SpecUsers == InitUsers /\ [][NextUsers]_vars

\* one identity and room for one more refresh
InitLineage == JWTInit({ForgedToken})

NextLineage == JWTNext(0..1, MaxTokens + 1)

SpecLineage == InitLineage /\ [][NextLineage]_vars

\* several identities, one RefreshToken call interleaved with the other calls
InitSteps == JWTInit({ForgedToken})

NextSteps ==
  \/ DoValidateToken
  \/ Tick
  \/ DoGenerateToken(UserIDs, MaxTokens)
  \/ DoGenerateTokenWithExpiration(UserIDs, MaxTokens)
  \/ DoRevokeToken
  \/ DoRevokeAllUserTokens(UserIDs)
  \/ DoCleanupExpiredTokens
  \/ RefreshRead(MaxTokens)
  \/ RefreshWindow
  \/ RefreshGenerate
  \/ RefreshCount
  \/ RefreshRevoke

SpecSteps == InitSteps /\ [][NextSteps]_vars

\* one identity, refreshing allowed once more than in the other
\* specifications, and room for a chain of that length next to another token
CountConfigs ==
  [AllowRefresh : {TRUE}, MaxRefreshCount : {MaxRefreshBound + 1},
   DefaultExpiration : Durations, RefreshExpiration : Durations]

InitCounts == JWTInitWith(CountConfigs, {ForgedToken})

NextCounts ==
  \/ Tick
  \/ DoGenerateToken(1..1, MaxTokens + 2)
  \/ DoRefreshToken(MaxTokens + 2)
  \/ DoRevokeToken

SpecCounts == InitCounts /\ [][NextCounts]_vars

\* GenerateToken and RevokeToken calls only, each one critical section, taken
\* in any order
InitGenerateRevoke == JWTInit({ForgedToken})

NextGenerateRevoke ==
  \/ Tick
  \/ DoGenerateToken(0..1, MaxTokens + 1)
  \/ DoRevokeToken

SpecGenerateRevoke == InitGenerateRevoke /\ [][NextGenerateRevoke]_vars

\* one identity, and a caller that holds a service-signed token for user 0
InitZeroUser == JWTInit({ZeroUserToken})

NextZeroUser == JWTNext(0..1, MaxTokens)

SpecZeroUser == InitZeroUser /\ [][NextZeroUser]_vars

\* ---------------------------------------------------------------- accounts
\* userService (src/service.go), registerService, authService / loginService
\* and the simple tokenService behind them.  The relational store is a
\* sequence of rows; a unique index refuses a second row with the same value,
\* soft-deleted rows included; queries see only rows that are not deleted.
MaxAccounts == 2

Usernames == {"alice", "bob"}

Emails == {"alice@x.com", "bob@x.com"}

\* LastLoginAt of a user that never logged in
NoLogin == -1

\* Password strings.  Of a plaintext only this matters: its text, whether it
\* is longer than 50 bytes and whether it holds a '$'.
Plain(text) == [kind |-> "plain", text |-> text, long |-> FALSE, dollar |-> FALSE]

EmptyPassword == Plain("")

\* a plaintext of more than 50 bytes that holds a '$'; what stands before the
\* '$' is not base64
LongDollarPassword ==
  [kind |-> "plain", text |-> "long$", long |-> TRUE, dollar |-> TRUE]

Plaintexts == {EmptyPassword, Plain("pw1"), Plain("pw2"), LongDollarPassword}

\* hashPassword: base64(salt) $ base64(argon2id(password, salt)), 66 bytes
hashPassword(password, salt) == [kind |-> "argon2", salt |-> salt, of |-> password]

\* isPasswordHashed: longer than 50 bytes and holding a '$'
isPasswordHashed(password) ==
  IF password.kind = "argon2" THEN TRUE ELSE password.long /\ password.dollar

\* authService.VerifyPassword: split at the first '$', decode both parts,
\* recompute the hash with the salt and compare
VerifyPassword(password, hashedPassword) ==
  IF hashedPassword.kind = "argon2"
    THEN [err |-> "nil", valid |-> password = hashedPassword.of]
  ELSE IF ~hashedPassword.dollar
    THEN [err |-> "invalid_hash_format", valid |-> FALSE]
  ELSE [err |-> "base64_decode", valid |-> FALSE]

\* the rows a query sees
Visible(U) == {i \in DOMAIN U : ~U[i].deleted}

NoUser ==
  [id |-> 0, username |-> "", email |-> "", passwordHash |-> EmptyPassword,
   status |-> 0, lastLoginAt |-> NoLogin, deleted |-> FALSE]

GetUserByUsername(U, username) ==
  LET found == {i \in Visible(U) : U[i].username = username} IN
    IF found = {} THEN [err |-> "record_not_found", user |-> NoUser]
    ELSE [err |-> "nil", user |-> U[CHOOSE i \in found : \A j \in found : i <= j]]

GetUserByEmail(U, email) ==
  LET found == {i \in Visible(U) : U[i].email = email} IN
    IF found = {} THEN [err |-> "record_not_found", user |-> NoUser]
    ELSE [err |-> "nil", user |-> U[CHOOSE i \in found : \A j \in found : i <= j]]

GetUserByID(U, id) ==
  IF id \in Visible(U) THEN [err |-> "nil", user |-> U[id]]
  ELSE [err |-> "record_not_found", user |-> NoUser]

\* userService.UpdateUser: the row must be there; Save writes every field
UpdateUser(U, user) ==
  IF GetUserByID(U, user.id).err # "nil"
    THEN [err |-> "record_not_found", users |-> U]
  ELSE [err |-> "nil", users |-> [U EXCEPT ![user.id] = user]]

\* userService.ValidateInvitationCode: eight bytes long
InvitationCodes == {"", "short", "8letters"}

ValidateInvitationCode(code) == code = "8letters"

\* mutant: the email is not looked up before the row is created
CreateUser_NoEmailCheck(U, user, salt) ==
  IF GetUserByUsername(U, user.username).err = "nil"
    THEN [err |-> "username_exists", users |-> U, user |-> NoUser]
  ELSE IF user.invitationCode # "" /\ ~ValidateInvitationCode(user.invitationCode)
    THEN [err |-> "invalid_invitation", users |-> U, user |-> NoUser]
  ELSE
    LET hashed ==
          IF user.passwordHash # EmptyPassword /\ ~isPasswordHashed(user.passwordHash)
            THEN hashPassword(user.passwordHash, salt) ELSE user.passwordHash
        row == [id |-> Len(U) + 1, username |-> user.username,
                email |-> user.email, passwordHash |-> hashed,
                status |-> user.status, lastLoginAt |-> NoLogin,
                deleted |-> FALSE]
    IN [err |-> "nil", users |-> Append(U, row), user |-> row]

\* userService.CreateUser
CreateUser(U, user, salt) ==
  IF GetUserByUsername(U, user.username).err = "nil"
    THEN [err |-> "username_exists", users |-> U, user |-> NoUser]
  ELSE IF GetUserByEmail(U, user.email).err = "nil"
    THEN [err |-> "email_exists", users |-> U, user |-> NoUser]
  ELSE IF user.invitationCode # "" /\ ~ValidateInvitationCode(user.invitationCode)
    THEN [err |-> "invalid_invitation", users |-> U, user |-> NoUser]
  ELSE
    LET hashed ==
          IF user.passwordHash # EmptyPassword /\ ~isPasswordHashed(user.passwordHash)
            THEN hashPassword(user.passwordHash, salt) ELSE user.passwordHash
        row == [id |-> Len(U) + 1, username |-> user.username,
                email |-> user.email, passwordHash |-> hashed,
                status |-> user.status, lastLoginAt |-> NoLogin,
                deleted |-> FALSE]
    IN IF \E i \in DOMAIN U : U[i].username = row.username \/ U[i].email = row.email
         THEN [err |-> "unique_constraint", users |-> U, user |-> NoUser]
         ELSE [err |-> "nil", users |-> Append(U, row), user |-> row]

\* the lifetime the simple tokenService was constructed with
SessionTTL == 2 * TicksPerSecond

\* tokenService.GenerateToken: the claims are the user id and the three
\* times, each truncated to a whole second; there is no token id
SessionToken(userID, t) ==
  [kind |-> "jwt", key |-> "session", user |-> userID,
   iat |-> NewNumericDate(t), exp |-> NewNumericDate(t + SessionTTL)]

\* tokenService.ValidateToken
SessionValidate(R, tokenString, t) ==
  IF tokenString \in R THEN [err |-> "revoked", userID |-> 0]
  ELSE IF tokenString.kind # "jwt" THEN [err |-> "parse_malformed", userID |-> 0]
  ELSE IF tokenString.key # "session" THEN [err |-> "parse_signature", userID |-> 0]
  ELSE IF ~(t < tokenString.exp) THEN [err |-> "parse_expired", userID |-> 0]
  ELSE [err |-> "nil", userID |-> tokenString.user]

\* tokenService.RevokeToken
SessionRevoke(R, tokenString) == R \cup {tokenString}

\* the user table and the revoked session tokens as one value
Accounts == [users |-> sysUsers, revoked |-> sessionRevoked]

\* registerService.Register
Register(A, username, email, password, invitationCode, t) ==
  LET c == CreateUser(A.users,
                      [username |-> username, email |-> email,
                       passwordHash |-> password, status |-> 1,
                       invitationCode |-> invitationCode],
                      Len(A.users) + 1)
  IN IF c.err # "nil" THEN [err |-> c.err, token |-> EmptyToken, accounts |-> A]
     ELSE [err |-> "nil", token |-> SessionToken(c.user.id, t),
           accounts |-> [A EXCEPT !.users =
             UpdateUser(c.users, [c.user EXCEPT !.lastLoginAt = t]).users]]

\* authService.Login; loginService.Login is the same code, with the
\* password verified by authService.VerifyPassword
Login(A, username, password, t) ==
  LET g == GetUserByUsername(A.users, username) IN
    IF g.err # "nil"
      THEN [err |-> "bad_credentials", token |-> EmptyToken, accounts |-> A]
    ELSE IF g.user.status # 1
      THEN [err |-> "user_disabled", token |-> EmptyToken, accounts |-> A]
    ELSE LET v == VerifyPassword(password, g.user.passwordHash) IN
      IF v.err # "nil" THEN [err |-> v.err, token |-> EmptyToken, accounts |-> A]
      ELSE IF ~v.valid
        THEN [err |-> "bad_credentials", token |-> EmptyToken, accounts |-> A]
      ELSE [err |-> "nil", token |-> SessionToken(g.user.id, t),
            accounts |-> [A EXCEPT !.users =
              UpdateUser(@, [g.user EXCEPT !.lastLoginAt = t]).users]]

\* authService.RefreshToken; loginService.RefreshToken is the same code
SessionRefresh(A, tokenString, t) ==
  LET v == SessionValidate(A.revoked, tokenString, t) IN
    IF v.err # "nil" THEN [err |-> v.err, token |-> EmptyToken, accounts |-> A]
    ELSE [err |-> "nil", token |-> SessionToken(v.userID, t),
          accounts |-> [A EXCEPT !.revoked = SessionRevoke(@, tokenString)]]

\* the password strings a caller can present: plaintexts and stored strings
PasswordArgs == Plaintexts \cup {sysUsers[i].passwordHash : i \in DOMAIN sysUsers}

\* the session token strings a caller can present
SessionArgs == {MalformedToken} \cup sessionTokens

CommitAccounts(A) ==
  /\ sysUsers' = A.users
  /\ sessionRevoked' = A.revoked

AccountsInit ==
  /\ JWTInit({ForgedToken})
  /\ ~config.AllowRefresh
  /\ config.DefaultExpiration = 1

DoRegister(usernames, passwords, invitationCodes) ==
  \E username \in usernames, email \in Emails, password \in passwords,
     invitationCode \in invitationCodes :
    LET r == Register(Accounts, username, email, password, invitationCode, now) IN
      /\ r.err = "nil" => Len(sysUsers) < MaxAccounts
      /\ CommitAccounts(r.accounts)
      /\ sessionTokens' = IF r.err = "nil" THEN sessionTokens \cup {r.token}
                          ELSE sessionTokens
      /\ UNCHANGED <<now, jwtVars, roleVars, passwordVars>>

DoLogin ==
  \E username \in Usernames, password \in PasswordArgs :
    LET r == Login(Accounts, username, password, now) IN
      /\ CommitAccounts(r.accounts)
      /\ sessionTokens' = IF r.err = "nil" THEN sessionTokens \cup {r.token}
                          ELSE sessionTokens
      /\ UNCHANGED <<now, jwtVars, roleVars, passwordVars>>

\* userService.UpdateUser with the status of a stored user changed
DoUpdateUser ==
  \E id \in DOMAIN sysUsers, status \in {1, 2} :
    /\ sysUsers' = UpdateUser(sysUsers, [sysUsers[id] EXCEPT !.status = status]).users
    /\ UNCHANGED <<now, jwtVars, roleVars, passwordVars, sessionRevoked, sessionTokens>>

DoSessionRefresh ==
  \E tokenString \in SessionArgs :
    LET r == SessionRefresh(Accounts, tokenString, now) IN
      /\ CommitAccounts(r.accounts)
      /\ sessionTokens' = IF r.err = "nil" THEN sessionTokens \cup {r.token}
                          ELSE sessionTokens
      /\ UNCHANGED <<now, jwtVars, roleVars, passwordVars>>

\* authService.Logout
DoLogout ==
  \E tokenString \in SessionArgs :
    /\ sessionRevoked' = SessionRevoke(sessionRevoked, tokenString)
    /\ UNCHANGED <<now, jwtVars, roleVars, passwordVars, sysUsers, sessionTokens>>

AccountsNext ==
  \/ Tick
  \/ DoRegister(Usernames, Plaintexts, InvitationCodes)
  \/ DoLogin
  \/ DoUpdateUser
  \/ DoSessionRefresh
  \/ DoLogout

SpecAccounts == AccountsInit /\ [][AccountsNext]_vars

\* ------------------------------------------------------------------- roles
\* roleService (src/models.go): the assignment tables sys_user_roles and
\* sys_role_permissions, rows in order of insertion.  The roles and the
\* permissions themselves are rows that exist, each role under its own name.
MaxRole == 2
MaxPermission == 2

RoleIDs == 1..MaxRole

PermissionIDs == 1..MaxPermission

\* Role.Name, unique per role
RoleNameOf(roleID) == <<"role", roleID>>

\* mutant: the pair is inserted without looking for it first
AssignRoleToUser_NoLookup(T, userID, roleID) ==
  [err |-> "nil", rows |-> Append(T, <<userID, roleID>>)]

AssignRoleToUser(T, userID, roleID) ==
  IF \E i \in DOMAIN T : T[i] = <<userID, roleID>>
    THEN [err |-> "role_already_assigned", rows |-> T]
  ELSE [err |-> "nil", rows |-> Append(T, <<userID, roleID>>)]

RemoveRoleFromUser(T, userID, roleID) ==
  [err |-> "nil", rows |-> SelectSeq(T, LAMBDA row : row # <<userID, roleID>>)]

\* HasRole: the join of sys_roles and sys_user_roles counts a row
HasRole(T, userID, roleName) ==
  \E i \in DOMAIN T :
    T[i][1] = userID /\ T[i][2] \in RoleIDs /\ RoleNameOf(T[i][2]) = roleName

AssignPermissionToRole(T, roleID, permissionID) ==
  IF \E i \in DOMAIN T : T[i] = <<roleID, permissionID>>
    THEN [err |-> "permission_already_assigned", rows |-> T]
  ELSE [err |-> "nil", rows |-> Append(T, <<roleID, permissionID>>)]

RemovePermissionFromRole(T, roleID, permissionID) ==
  [err |-> "nil", rows |-> SelectSeq(T, LAMBDA row : row # <<roleID, permissionID>>)]

\* GetRolePermissions: the permissions joined to the rows of the role
GetRolePermissions(T, roleID) ==
  {T[i][2] : i \in {j \in DOMAIN T : T[j][1] = roleID /\ T[j][2] \in PermissionIDs}}

\* sys_permissions: the Resource and Action of the permission rows
PermissionOf(permissionID) ==
  [Resource |-> IF permissionID <= 2 THEN "doc" ELSE "img",
   Action |-> IF permissionID = 2 THEN "write" ELSE "read"]

Resources == {"doc", "img"}

PermissionActions == {"read", "write"}

\* mutant: the action of the permission is not compared
HasPermission_AnyAction(UR, RP, userID, resource, action) ==
  \E i \in DOMAIN UR, j \in DOMAIN RP :
    /\ UR[i][1] = userID
    /\ RP[j][1] = UR[i][2]
    /\ RP[j][2] \in PermissionIDs
    /\ PermissionOf(RP[j][2]).Resource = resource

\* HasPermission: the join of sys_permissions, sys_role_permissions and
\* sys_user_roles counts a row
HasPermission(UR, RP, userID, resource, action) ==
  \E i \in DOMAIN UR, j \in DOMAIN RP :
    /\ UR[i][1] = userID
    /\ RP[j][1] = UR[i][2]
    /\ RP[j][2] \in PermissionIDs
    /\ PermissionOf(RP[j][2]).Resource = resource
    /\ PermissionOf(RP[j][2]).Action = action

\* the outcomes of the store for one query
StoreErrors == {"nil", "db_error"}

\* what the caller of HasPermission / HasRole gets: count > 0 and the store's
\* error; count is left at 0 when the query failed
Decision(has, dbErr) == [ok |-> dbErr = "nil" /\ has, err |-> dbErr]

RolesInit == AccountsInit

DoAssignRoleToUser(userIDs, roleIDs) ==
  \E userID \in userIDs, roleID \in roleIDs :
    /\ userRoles' = AssignRoleToUser(userRoles, userID, roleID).rows
    /\ UNCHANGED <<now, jwtVars, accountVars, passwordVars, rolePermissions, assigning>>

DoRemoveRoleFromUser(userIDs, roleIDs) ==
  \E userID \in userIDs, roleID \in roleIDs :
    /\ userRoles' = RemoveRoleFromUser(userRoles, userID, roleID).rows
    /\ UNCHANGED <<now, jwtVars, accountVars, passwordVars, rolePermissions, assigning>>

DoAssignPermissionToRole(roleIDs, permissionIDs) ==
  \E roleID \in roleIDs, permissionID \in permissionIDs :
    /\ rolePermissions' =
         AssignPermissionToRole(rolePermissions, roleID, permissionID).rows
    /\ UNCHANGED <<now, jwtVars, accountVars, passwordVars, userRoles, assigning>>

DoRemovePermissionFromRole(roleIDs, permissionIDs) ==
  \E roleID \in roleIDs, permissionID \in permissionIDs :
    /\ rolePermissions' =
         RemovePermissionFromRole(rolePermissions, roleID, permissionID).rows
    /\ UNCHANGED <<now, jwtVars, accountVars, passwordVars, userRoles, assigning>>

\* HasPermission and HasRole as calls: one query, nothing written
DoHasPermission(userIDs) ==
  \E userID \in userIDs, resource \in Resources, action \in PermissionActions,
     dbErr \in StoreErrors :
    /\ Decision(HasPermission(userRoles, rolePermissions, userID, resource, action),
                dbErr).err = dbErr
    /\ UNCHANGED vars

DoHasRole(userIDs, roleIDs) ==
  \E userID \in userIDs, roleID \in roleIDs, dbErr \in StoreErrors :
    /\ Decision(HasRole(userRoles, userID, RoleNameOf(roleID)), dbErr).err = dbErr
    /\ UNCHANGED vars

RolesNext ==
  \/ DoAssignRoleToUser(1..MaxUser, RoleIDs)
  \/ DoRemoveRoleFromUser(1..MaxUser, RoleIDs)
  \/ DoAssignPermissionToRole(RoleIDs, PermissionIDs)
  \/ DoRemovePermissionFromRole(RoleIDs, PermissionIDs)

SpecRoles == RolesInit /\ [][RolesNext]_vars

\* ---- authorization decisions, over ids with and without a row in
\* ---- sys_roles / sys_permissions
AuthzRoles == {1, MaxRole + 1}

AuthzPermissions == 1..(MaxPermission + 1)

AuthzNext ==
  \/ DoAssignRoleToUser(1..MaxUser, AuthzRoles)
  \/ DoRemoveRoleFromUser(1..MaxUser, AuthzRoles)
  \/ DoAssignPermissionToRole(AuthzRoles, AuthzPermissions)
  \/ DoRemovePermissionFromRole(AuthzRoles, AuthzPermissions)
  \/ DoHasPermission(1..MaxUser)
  \/ DoHasRole(1..MaxUser, AuthzRoles)

SpecAuthz == RolesInit /\ [][AuthzNext]_vars

\* ---- the Assign calls as the two statements they are: First, then Create
\* First has found no row for the pair
AssignRoleLookup(c, userIDs, roleIDs) ==
  /\ assigning[c] = Idle
  /\ \E userID \in userIDs, roleID \in roleIDs :
       /\ AssignRoleToUser(userRoles, userID, roleID).err = "nil"
       /\ assigning' = [assigning EXCEPT
                          ![c] = [pc |-> "create_user_role", row |-> <<userID, roleID>>]]
  /\ UNCHANGED <<now, jwtVars, accountVars, passwordVars, userRoles, rolePermissions>>

\* s.db.Create(userRole)
AssignRoleCreate(c) ==
  /\ assigning[c].pc = "create_user_role"
  /\ userRoles' = Append(userRoles, assigning[c].row)
  /\ assigning' = [assigning EXCEPT ![c] = Idle]
  /\ UNCHANGED <<now, jwtVars, accountVars, passwordVars, rolePermissions>>

AssignPermissionLookup(c, roleIDs, permissionIDs) ==
  /\ assigning[c] = Idle
  /\ \E roleID \in roleIDs, permissionID \in permissionIDs :
       /\ AssignPermissionToRole(rolePermissions, roleID, permissionID).err = "nil"
       /\ assigning' = [assigning EXCEPT
                          ![c] = [pc |-> "create_role_permission",
                                  row |-> <<roleID, permissionID>>]]
  /\ UNCHANGED <<now, jwtVars, accountVars, passwordVars, userRoles, rolePermissions>>

\* s.db.Create(rolePermission)
AssignPermissionCreate(c) ==
  /\ assigning[c].pc = "create_role_permission"
  /\ rolePermissions' = Append(rolePermissions, assigning[c].row)
  /\ assigning' = [assigning EXCEPT ![c] = Idle]
  /\ UNCHANGED <<now, jwtVars, accountVars, passwordVars, userRoles>>

RolesStepsNext ==
  \E c \in Callers :
    \/ AssignRoleLookup(c, 1..1, RoleIDs)
    \/ AssignRoleCreate(c)
    \/ AssignPermissionLookup(c, RoleIDs, 1..1)
    \/ AssignPermissionCreate(c)
    \/ DoRemoveRoleFromUser(1..1, RoleIDs)
    \/ DoRemovePermissionFromRole(RoleIDs, 1..1)

SpecRolesSteps == RolesInit /\ [][RolesStepsNext]_vars

\* ------------------------------------------------------------- middleware
\* mutant: the status of the row is not looked at
AuthValidateToken_AnyStatus(A, tokenString, t) ==
  LET v == SessionValidate(A.revoked, tokenString, t) IN
    IF v.err # "nil" THEN [err |-> v.err, user |-> NoUser]
    ELSE LET g == GetUserByID(A.users, v.userID) IN
      IF g.err # "nil" THEN [err |-> g.err, user |-> NoUser]
      ELSE [err |-> "nil", user |-> g.user]

\* authService.ValidateToken: the token, then the user row, then its status
AuthValidateToken(A, tokenString, t) ==
  LET v == SessionValidate(A.revoked, tokenString, t) IN
    IF v.err # "nil" THEN [err |-> v.err, user |-> NoUser]
    ELSE LET g == GetUserByID(A.users, v.userID) IN
      IF g.err # "nil" THEN [err |-> g.err, user |-> NoUser]
      ELSE IF g.user.status # 1 THEN [err |-> "user_disabled", user |-> NoUser]
      ELSE [err |-> "nil", user |-> g.user]

\* userService.DeleteUser: the row must be there; Delete sets deleted_at
DeleteUser(U, id) ==
  IF GetUserByID(U, id).err # "nil"
    THEN [err |-> "record_not_found", users |-> U]
  ELSE [err |-> "nil", users |-> [U EXCEPT ![id].deleted = TRUE]]

DoDeleteUser ==
  \E id \in 1..MaxAccounts :
    /\ sysUsers' = DeleteUser(sysUsers, id).users
    /\ UNCHANGED <<now, jwtVars, roleVars, passwordVars, sessionRevoked, sessionTokens>>

\* authService.ValidateToken / loginService.ValidateToken: nothing is written
DoAuthValidateToken ==
  \E tokenString \in SessionArgs \cup {foreign} :
    /\ AuthValidateToken(Accounts, tokenString, now).err # ""
    /\ UNCHANGED vars

SessionsNext ==
  \/ Tick
  \/ DoRegister(Usernames, {Plain("pw1")}, {""})
  \/ DoLogin
  \/ DoUpdateUser
  \/ DoDeleteUser
  \/ DoSessionRefresh
  \/ DoLogout
  \/ DoAuthValidateToken

SpecSessions == AccountsInit /\ [][SessionsNext]_vars

\* The Authorization header as strings.SplitN(authHeader, " ", 2) cuts it:
\* no header, a header without a space, a scheme and what follows it
Headers(tokens) ==
  {<<>>, <<"Bearer">>}
    \cup {<<scheme, tokenString>> : scheme \in {"Bearer", "bearer"},
                                    tokenString \in tokens}

\* what a middleware did with a request: the status it wrote, or 200 and
\* next = TRUE when it called the wrapped handler, with the user in the context
Refused(status) == [status |-> status, next |-> FALSE, user |-> NoUser]

\* mutant: the scheme of the header is not compared with "Bearer"
RequireAuth_AnyScheme(A, authHeader, t) ==
  IF authHeader = <<>> THEN Refused(401)
  ELSE IF Len(authHeader) # 2 THEN Refused(401)
  ELSE LET v == AuthValidateToken(A, authHeader[2], t) IN
    IF v.err # "nil" THEN Refused(401)
    ELSE [status |-> 200, next |-> TRUE, user |-> v.user]

RequireAuth(A, authHeader, t) ==
  IF authHeader = <<>> THEN Refused(401)
  ELSE IF Len(authHeader) # 2 \/ authHeader[1] # "Bearer" THEN Refused(401)
  ELSE LET v == AuthValidateToken(A, authHeader[2], t) IN
    IF v.err # "nil" THEN Refused(401)
    ELSE [status |-> 200, next |-> TRUE, user |-> v.user]

\* RequirePermission / RequireRole: RequireAuth wrapped around the check;
\* the context always holds the *User that RequireAuth has put there
RequirePermission(A, UR, RP, authHeader, t, resource, action, dbErr) ==
  LET a == RequireAuth(A, authHeader, t) IN
    IF ~a.next THEN a
    ELSE LET d == Decision(HasPermission(UR, RP, a.user.id, resource, action), dbErr)
         IN IF d.err # "nil" THEN Refused(500)
            ELSE IF ~d.ok THEN Refused(403)
            ELSE a

RequireRole(A, UR, authHeader, t, roleName, dbErr) ==
  LET a == RequireAuth(A, authHeader, t) IN
    IF ~a.next THEN a
    ELSE LET d == Decision(HasRole(UR, a.user.id, roleName), dbErr)
         IN IF d.err # "nil" THEN Refused(500)
            ELSE IF ~d.ok THEN Refused(403)
            ELSE a

\* the headers a client can send
HeaderArgs == Headers(SessionArgs \cup {foreign})

\* a request served by a handler behind the middleware: nothing is written
DoRequireAuth ==
  \E authHeader \in HeaderArgs :
    /\ RequireAuth(Accounts, authHeader, now).status \in {200, 401}
    /\ UNCHANGED vars

DoRequirePermission ==
  \E authHeader \in HeaderArgs, resource \in Resources,
     action \in PermissionActions, dbErr \in StoreErrors :
    /\ RequirePermission(Accounts, userRoles, rolePermissions, authHeader, now,
                         resource, action, dbErr).status \in {200, 401, 403, 500}
    /\ UNCHANGED vars

DoRequireRole ==
  \E authHeader \in HeaderArgs, roleID \in RoleIDs, dbErr \in StoreErrors :
    /\ RequireRole(Accounts, userRoles, authHeader, now, RoleNameOf(roleID),
                   dbErr).status \in {200, 401, 403, 500}
    /\ UNCHANGED vars

MiddlewareNext ==
  \/ Tick
  \/ DoRegister(Usernames, {Plain("pw1")}, {""})
  \/ DoLogin
  \/ DoUpdateUser
  \/ DoLogout
  \/ DoAssignRoleToUser(1..MaxUser, 1..1)
  \/ DoRemoveRoleFromUser(1..MaxUser, 1..1)
  \/ DoAssignPermissionToRole(1..1, 1..1)
  \/ DoRemovePermissionFromRole(1..1, 1..1)
  \/ DoRequireAuth
  \/ DoRequirePermission
  \/ DoRequireRole

SpecMiddleware == RolesInit /\ [][MiddlewareNext]_vars

\* ------------------------------------------------------- password history
MaxHistory == 3
MaxCreatedAt == 4
MaxSalt == 1

Passwords == {<<>>, <<"p", "w", "1">>, <<"p", "w", "2">>}

\* what bcrypt reads of a password: the bytes of the password and a zero byte,
\* over and over, for the 72 bytes of the Blowfish key schedule
MaxPasswordBytes == 72

Key(password) ==
  LET key == password \o <<"NUL">>
  IN  [i \in 1..MaxPasswordBytes |-> key[((i - 1) % Len(key)) + 1]]

\* hash strings: the empty one, one that is no bcrypt encoding, and encodings
EmptyHash == [kind |-> "empty"]

JunkHash == [kind |-> "junk"]

\* PasswordHasher.Hash: bcrypt of the password under a random salt.
\* errTooLong says whether bcrypt.GenerateFromPassword of the build refuses a
\* password above 72 bytes (x/crypto from v0.5.0) or reads its first 72.
Hash(password, salt, errTooLong) ==
  IF password = <<>> THEN [err |-> "password_empty", hash |-> EmptyHash]
  ELSE IF errTooLong /\ Len(password) > MaxPasswordBytes
    THEN [err |-> "hashing_failed", hash |-> EmptyHash]
  ELSE [err |-> "nil",
        hash |-> [kind |-> "bcrypt", of |-> Key(password), salt |-> salt]]

\* PasswordHasher.Verify: bcrypt.CompareHashAndPassword, which fails on a
\* string that is no bcrypt encoding
Verify(password, hash) ==
  IF password = <<>> \/ hash = EmptyHash THEN FALSE
  ELSE hash.kind = "bcrypt" /\ hash.of = Key(password)

Reverse(s) == [i \in 1..Len(s) |-> s[Len(s) + 1 - i]]

\* time.Now() of an Add: later than the CreatedAt of every stored entry
CreatedAtNow(H, userID) ==
  LET stored == Lookup(H, userID, <<>>) IN
    IF stored = <<>> THEN 1
    ELSE 1 + (CHOOSE m \in {stored[i].createdAt : i \in DOMAIN stored} :
                \A i \in DOMAIN stored : stored[i].createdAt <= m)

\* MemoryHistoryStorage.Add
Add(H, userID, hash) ==
  IF userID = 0 THEN [err |-> "invalid_user_id", histories |-> H]
  ELSE IF hash = EmptyHash THEN [err |-> "invalid_hash", histories |-> H]
  ELSE [err |-> "nil",
        histories |->
          Put(H, userID,
              Append(Lookup(H, userID, <<>>),
                     [hash |-> hash, createdAt |-> CreatedAtNow(H, userID)]))]

\* MemoryHistoryStorage.GetHistory: a reversed copy, cut at limit
GetHistory(H, userID, limit) ==
  IF userID = 0 THEN [err |-> "invalid_user_id", result |-> <<>>]
  ELSE IF userID \notin DOMAIN H THEN [err |-> "nil", result |-> <<>>]
  ELSE LET result == Reverse(H[userID]) IN
    [err |-> "nil",
     result |-> IF limit > 0 /\ limit < Len(result)
                  THEN SubSeq(result, 1, limit) ELSE result]

\* MemoryHistoryStorage.Cleanup: the stored slice is reversed in place and
\* its first keepCount entries are stored
Cleanup(H, userID, keepCount) ==
  IF userID = 0 THEN [err |-> "invalid_user_id", histories |-> H]
  ELSE IF userID \notin DOMAIN H THEN [err |-> "nil", histories |-> H]
  ELSE IF Len(H[userID]) <= keepCount THEN [err |-> "nil", histories |-> H]
  ELSE [err |-> "nil",
        histories |-> Put(H, userID, SubSeq(Reverse(H[userID]), 1, keepCount))]

\* mutant: only the newest entry is compared
CheckHistory_NewestOnly(H, userID, password) ==
  IF password = <<>> THEN [err |-> "password_empty", found |-> FALSE]
  ELSE LET g == GetHistory(H, userID, 1) IN
    IF g.err # "nil" THEN [err |-> g.err, found |-> FALSE]
    ELSE [err |-> "nil",
          found |-> \E i \in DOMAIN g.result : Verify(password, g.result[i].hash)]

\* PasswordHistoryManager.CheckHistory
CheckHistory(H, userID, password) ==
  IF password = <<>> THEN [err |-> "password_empty", found |-> FALSE]
  ELSE LET g == GetHistory(H, userID, 0) IN
    IF g.err # "nil" THEN [err |-> g.err, found |-> FALSE]
    ELSE [err |-> "nil",
          found |-> \E i \in DOMAIN g.result : Verify(password, g.result[i].hash)]

\* the hash strings a caller can pass to AddToHistory
HashArgs ==
  {EmptyHash, JunkHash}
    \cup {Hash(password, salt, FALSE).hash : password \in Passwords \ {<<>>},
                                            salt \in 1..MaxSalt}

\* PasswordHistoryManager.AddToHistory
DoAddToHistory ==
  \E userID \in UserIDs, hash \in HashArgs :
    LET a == Add(histories, userID, hash) IN
      /\ a.err = "nil" =>
           /\ Len(Lookup(histories, userID, <<>>)) < MaxHistory
           /\ CreatedAtNow(histories, userID) <= MaxCreatedAt
      /\ histories' = a.histories
      /\ UNCHANGED <<now, jwtVars, accountVars, roleVars, gen, checked,
               manager, managing, changed>>

\* PasswordHistoryManager.CleanupHistory
DoCleanupHistory ==
  \E userID \in UserIDs, keepCount \in 0..MaxHistory :
    /\ histories' = Cleanup(histories, userID, keepCount).histories
    /\ UNCHANGED <<now, jwtVars, accountVars, roleVars, gen, checked,
               manager, managing, changed>>

DoGetHistory ==
  \E userID \in UserIDs, limit \in 0..MaxHistory :
    /\ GetHistory(histories, userID, limit).err \in {"nil", "invalid_user_id"}
    /\ UNCHANGED vars

DoCheckHistory ==
  \E userID \in UserIDs, password \in Passwords :
    /\ CheckHistory(histories, userID, password).found \in BOOLEAN
    /\ UNCHANGED vars

HistoryNext ==
  \/ DoAddToHistory
  \/ DoCleanupHistory
  \/ DoGetHistory
  \/ DoCheckHistory

SpecHistory == RolesInit /\ [][HistoryNext]_vars

\* ------------------------------------------------------ password generator
\* Strings are sequences of bytes, a byte of ASCII written as its character
\* and the grave accent as "grave".
LowerChars ==
  <<"a", "b", "c", "d", "e", "f", "g", "h", "i", "j", "k", "l", "m", "n",
    "o", "p", "q", "r", "s", "t", "u", "v", "w", "x", "y", "z">>

UpperChars ==
  <<"A", "B", "C", "D", "E", "F", "G", "H", "I", "J", "K", "L", "M", "N",
    "O", "P", "Q", "R", "S", "T", "U", "V", "W", "X", "Y", "Z">>

NumberChars ==
  <<"0", "1", "2", "3", "4", "5", "6", "7", "8", "9">>

SymbolChars ==
  <<"!", "@", "#", "$", "%", "^", "&", "*", "(", ")", "_", "+", "-", "=",
    "[", "]", "{", "}", "|", ";", ":", ",", ".", "<", ">", "?">>

AmbiguousChars == <<"0", "O", "1", "l", "I", "|", "grave">>

\* the two bytes of one character outside ASCII
MultiByteChar == <<"C3", "A9">>

MaxLength == 2
MaxCandidates == 2
LengthCap == 256
MaxAttempts == 10

CharClasses == <<"lower", "upper", "numbers", "symbols">>

ClassChars(class) ==
  CASE class = "lower" -> LowerChars
    [] class = "upper" -> UpperChars
    [] class = "numbers" -> NumberChars
    [] class = "symbols" -> SymbolChars

\* options.IncludeLower, IncludeUpper, IncludeNumbers, IncludeSymbols
Included(options, class) == class \in options.Include

\* strings.ContainsAny
ContainsAny(password, chars) ==
  \E i \in DOMAIN password : password[i] \in Range(chars)

validateOptions(options) ==
  IF options.Length <= 0 THEN "invalid_options"
  ELSE IF options.Length > LengthCap THEN "invalid_options"
  ELSE IF options.Include = {} /\ options.CustomCharset = <<>>
    THEN "invalid_options"
  ELSE "nil"

\* mutant: nothing is removed
removeAmbiguousChars_Keep(charset) == charset

removeAmbiguousChars(charset) ==
  SelectSeq(charset, LAMBDA char : char \notin Range(AmbiguousChars))

buildCharset(options) ==
  IF options.CustomCharset # <<>>
    THEN IF options.ExcludeAmbiguous
           THEN removeAmbiguousChars(options.CustomCharset)
           ELSE options.CustomCharset
  ELSE LET part(class) == IF Included(options, class) THEN ClassChars(class) ELSE <<>>
           result == part("lower") \o part("upper") \o part("numbers") \o part("symbols")
       IN IF options.ExcludeAmbiguous THEN removeAmbiguousChars(result) ELSE result

meetsRequirements(password, options) ==
  IF options.CustomCharset # <<>> THEN TRUE
  ELSE \A i \in DOMAIN CharClasses :
         Included(options, CharClasses[i]) =>
           ContainsAny(password, ClassChars(CharClasses[i]))

\* ensureRequirements: for each included class the password lacks, in the
\* order lower, upper, numbers, symbols, the next position from the front is
\* overwritten with a random character of the class; pick is that character
ensureRequirements(password, options, pick) ==
  IF options.CustomCharset # <<>> THEN password
  ELSE LET missing ==
             SelectSeq(CharClasses,
                       LAMBDA class : Included(options, class)
                                      /\ ~ContainsAny(password, ClassChars(class)))
       IN [position \in 1..Len(password) |->
             IF position <= Len(missing) THEN pick[missing[position]]
             ELSE password[position]]

\* the characters secureRandomInt selects in the model: of every class one
\* that is ambiguous and one that is not, and what a custom set holds
RandomChars == {"a", "l", "A", "O", "2", "0", "!", "|", "grave", "C3", "A9"}

\* the passwords the generation loop can build from a character set
Candidates(charset, length) == [1..length -> Range(charset) \cap RandomChars]

PickArgs ==
  {[lower |-> l, upper |-> u, numbers |-> n, symbols |-> y] :
     l \in {"a", "l"}, u \in {"A", "O"}, n \in {"2", "0"}, y \in {"!", "|"}}

OptionArgs ==
  [Length : {0, 1, MaxLength, LengthCap + 1},
   Include : SUBSET Range(CharClasses),
   ExcludeAmbiguous : BOOLEAN,
   CustomCharset : {<<>>, <<"a", "0">>, <<"0", "O">>, MultiByteChar}]

\* GeneratePassword is entered, by the caller or by the retry loop of the
\* call on top of the stack: the options are checked, the character set is
\* built and a password is generated; it is returned if it meets the
\* requirements, otherwise the call stays on the stack and starts its loop
GenEnter(maxCandidates) ==
  /\ gen.status \in {"called", "running"}
  /\ IF validateOptions(gen.options) # "nil" \/ buildCharset(gen.options) = <<>>
       THEN gen' = [gen EXCEPT !.status = "failed"]
       ELSE /\ gen.candidates < maxCandidates
            /\ \E password \in Candidates(buildCharset(gen.options), gen.options.Length) :
                 gen' = IF meetsRequirements(password, gen.options)
                          THEN [gen EXCEPT !.status = "returning",
                                           !.value = password,
                                           !.candidates = @ + 1]
                          ELSE [gen EXCEPT !.status = "running",
                                           !.stack = Append(@, [result |-> password,
                                                                attempts |-> 0]),
                                           !.candidates = @ + 1]
  /\ UNCHANGED <<now, jwtVars, accountVars, roleVars, histories, checked,
               manager, managing, changed>>

\* a call returns gen.value: to the caller of the generator, or to the loop
\* of the call below it, which returns it if it meets the requirements,
\* tries again if it has attempts left, and otherwise returns its own first
\* password as ensureRequirements has changed it
GenReturn ==
  /\ gen.status = "returning"
  /\ \E pick \in PickArgs :
       gen' =
         IF gen.stack = <<>> THEN [gen EXCEPT !.status = "returned"]
         ELSE LET top == gen.stack[Len(gen.stack)]
                  rest == SubSeq(gen.stack, 1, Len(gen.stack) - 1)
              IN IF meetsRequirements(gen.value, gen.options)
                   THEN [gen EXCEPT !.stack = rest]
                 ELSE IF top.attempts + 1 < MaxAttempts
                   THEN [gen EXCEPT !.status = "running",
                                    !.stack = Append(rest, [top EXCEPT !.attempts = @ + 1])]
                 ELSE [gen EXCEPT !.stack = rest,
                                  !.value = ensureRequirements(top.result,
                                                               gen.options, pick)]
  /\ UNCHANGED <<now, jwtVars, accountVars, roleVars, histories, checked,
               manager, managing, changed>>

\* the caller calls GeneratePassword(options)
GenCall(optionArgs) ==
  /\ gen = NoCall
  /\ \E options \in optionArgs :
       gen' = [status |-> "called", options |-> options, stack |-> <<>>,
               value |-> <<>>, candidates |-> 0]
  /\ UNCHANGED <<now, jwtVars, accountVars, roleVars, histories, checked,
               manager, managing, changed>>

GenerateNext ==
  \/ GenCall(OptionArgs)
  \/ GenEnter(MaxCandidates)
  \/ GenReturn

SpecGenerate == RolesInit /\ [][GenerateNext]_vars

\* options under which half of the passwords fail the requirements, and a
\* stack deep enough for more than MaxAttempts of them
DeepOptionArgs ==
  {options \in OptionArgs :
     /\ options.Length \in 1..MaxLength
     /\ options.Include = {"lower", "upper"}
     /\ options.ExcludeAmbiguous
     /\ options.CustomCharset = <<>>}

GenerateDeepNext ==
  \/ GenCall(DeepOptionArgs)
  \/ GenEnter(MaxAttempts + MaxCandidates)
  \/ GenReturn

SpecGenerateDeep == RolesInit /\ [][GenerateDeepNext]_vars

\* ------------------------------------------- password strength and policy
StrengthWeak == "Weak"
StrengthMedium == "Medium"
StrengthStrong == "Strong"
StrengthVeryStrong == "VeryStrong"

commonPasswords ==
  {<<"p", "a", "s", "s", "w", "o", "r", "d">>,
   <<"1", "2", "3", "4", "5", "6">>,
   <<"1", "2", "3", "4", "5", "6", "7", "8", "9">>,
   <<"q", "w", "e", "r", "t", "y">>,
   <<"a", "b", "c", "1", "2", "3">>,
   <<"p", "a", "s", "s", "w", "o", "r", "d", "1", "2", "3">>,
   <<"a", "d", "m", "i", "n">>,
   <<"l", "e", "t", "m", "e", "i", "n">>,
   <<"w", "e", "l", "c", "o", "m", "e">>,
   <<"m", "o", "n", "k", "e", "y">>,
   <<"d", "r", "a", "g", "o", "n">>,
   <<"m", "a", "s", "t", "e", "r">>,
   <<"s", "h", "a", "d", "o", "w">>,
   <<"s", "u", "p", "e", "r", "m", "a", "n">>,
   <<"m", "i", "c", "h", "a", "e", "l">>,
   <<"f", "o", "o", "t", "b", "a", "l", "l">>,
   <<"b", "a", "s", "e", "b", "a", "l", "l">>,
   <<"l", "i", "v", "e", "r", "p", "o", "o", "l">>}

\* the alternatives of a pattern: every three neighbours of a row
Trigrams(row) == {SubSeq(row, i, i + 2) : i \in 1..(Len(row) - 2)}

sequentialPattern == Trigrams(LowerChars) \cup Trigrams(NumberChars)

keyboardPattern ==
  Trigrams(<<"q", "w", "e", "r", "t", "y", "u", "i", "o", "p">>)
    \cup Trigrams(<<"a", "s", "d", "f", "g", "h", "j", "k", "l">>)
    \cup Trigrams(<<"z", "x", "c", "v", "b", "n", "m">>)

\* strings.ToLower
ToLower(s) ==
  [i \in DOMAIN s |->
     IF s[i] \in Range(UpperChars)
       THEN LowerChars[CHOOSE k \in DOMAIN UpperChars : UpperChars[k] = s[i]]
       ELSE s[i]]

\* strings.Contains
Contains(s, substr) ==
  \E i \in 0..(Len(s) - Len(substr)) : SubSeq(s, i + 1, i + Len(substr)) = substr

\* regexp.MatchString of an alternation of literals
MatchString(pattern, s) == \E alternative \in pattern : Contains(s, alternative)

countUniqueChars(password) == Cardinality(Range(password))

hasRepeatedChars(password) ==
  /\ Len(password) >= 3
  /\ \E i \in 1..(Len(password) - 2) :
       password[i] = password[i + 1] /\ password[i + 1] = password[i + 2]

hasSequentialPattern(password) == MatchString(sequentialPattern, ToLower(password))

hasKeyboardPattern(password) == MatchString(keyboardPattern, ToLower(password))

isCommonPassword(password) == ToLower(password) \in commonPasswords

getStrengthLevel_Shifted(score) ==
  IF score <= 30 THEN StrengthWeak
  ELSE IF score < 60 THEN StrengthMedium
  ELSE IF score < 80 THEN StrengthStrong
  ELSE StrengthVeryStrong

getStrengthLevel(score) ==
  IF score < 30 THEN StrengthWeak
  ELSE IF score < 60 THEN StrengthMedium
  ELSE IF score < 80 THEN StrengthStrong
  ELSE StrengthVeryStrong

\* the entries a run of checks appends: the tags of those that hit, in order
Hits(checks) ==
  LET hit == SelectSeq(checks, LAMBDA check : check.hit)
  IN  [i \in DOMAIN hit |-> hit[i].tag]

\* the sum of the points of the checks that hit
RECURSIVE Points(_)
Points(checks) ==
  IF checks = <<>> THEN 0
  ELSE (IF Head(checks).hit THEN Head(checks).points ELSE 0) + Points(Tail(checks))

\* CheckStrength without the entropy and the crack-time label, which take no
\* part in the score
CheckStrength(enableDictionaryCheck, password) ==
  IF password = <<>>
    THEN [Score |-> 0, Level |-> StrengthWeak, Feedback |-> <<"empty">>]
    ELSE
      LET length == Len(password)
          has(class) == ContainsAny(password, ClassChars(class))
          checks ==
            << [hit |-> length < 8, tag |-> "length", points |-> 0],
               [hit |-> length >= 8 /\ length < 12, tag |-> "", points |-> 20],
               [hit |-> length >= 12 /\ length < 16, tag |-> "", points |-> 30],
               [hit |-> length >= 16, tag |-> "", points |-> 40],
               [hit |-> has("lower"), tag |-> "", points |-> 10],
               [hit |-> ~has("lower"), tag |-> "lower", points |-> 0],
               [hit |-> has("upper"), tag |-> "", points |-> 10],
               [hit |-> ~has("upper"), tag |-> "upper", points |-> 0],
               [hit |-> has("numbers"), tag |-> "", points |-> 10],
               [hit |-> ~has("numbers"), tag |-> "numbers", points |-> 0],
               [hit |-> has("symbols"), tag |-> "", points |-> 10],
               [hit |-> ~has("symbols"), tag |-> "symbols", points |-> 0],
               [hit |-> countUniqueChars(password) < length \div 2,
                tag |-> "unique", points |-> 0],
               [hit |-> ~(countUniqueChars(password) < length \div 2),
                tag |-> "", points |-> 10],
               [hit |-> hasSequentialPattern(password),
                tag |-> "sequential", points |-> -10],
               [hit |-> hasRepeatedChars(password),
                tag |-> "repeated", points |-> -10],
               [hit |-> hasKeyboardPattern(password),
                tag |-> "keyboard", points |-> -10],
               [hit |-> enableDictionaryCheck /\ isCommonPassword(password),
                tag |-> "common", points |-> -20] >>
          sum == Points(checks)
          score == IF sum < 0 THEN 0 ELSE IF sum > 100 THEN 100 ELSE sum
      IN  [Score |-> score,
           Level |-> getStrengthLevel(score),
           Feedback |-> SelectSeq(Hits(checks), LAMBDA tag : tag # "")]

\* getMaxRepeatedChars: the longest run of one byte
getMaxRepeatedChars(password) ==
  IF Len(password) = 0 THEN 0
  ELSE LET runs == {r \in 1..Len(password) :
                      \E i \in 1..(Len(password) - r + 1) :
                        \A k \in i..(i + r - 1) : password[k] = password[i]}
       IN  CHOOSE r \in runs : \A other \in runs : other <= r

\* the checks of ValidatePolicy in the order of the code; three of them are
\* guarded by the test that the bound is above unbounded, which is 0
PolicyChecks(password, policy, unbounded) ==
  LET length == Len(password)
      bounded(n) == n > unbounded
      missing(class) == ~ContainsAny(password, ClassChars(class))
      patterns == policy.ForbiddenPatterns
  IN  << [hit |-> length < policy.MinLength, tag |-> "MinLength", points |-> 20],
         [hit |-> bounded(policy.MaxLength) /\ length > policy.MaxLength,
          tag |-> "MaxLength", points |-> 10],
         [hit |-> policy.RequireLower /\ missing("lower"),
          tag |-> "RequireLower", points |-> 15],
         [hit |-> policy.RequireUpper /\ missing("upper"),
          tag |-> "RequireUpper", points |-> 15],
         [hit |-> policy.RequireNumbers /\ missing("numbers"),
          tag |-> "RequireNumbers", points |-> 15],
         [hit |-> policy.RequireSymbols /\ missing("symbols"),
          tag |-> "RequireSymbols", points |-> 15],
         [hit |-> /\ bounded(policy.MinUniqueChars)
                  /\ countUniqueChars(password) < policy.MinUniqueChars,
          tag |-> "MinUniqueChars", points |-> 10],
         [hit |-> /\ bounded(policy.MaxRepeatedChars)
                  /\ getMaxRepeatedChars(password) > policy.MaxRepeatedChars,
          tag |-> "MaxRepeatedChars", points |-> 15] >>
      \o [i \in DOMAIN patterns |->
            [hit |-> Contains(ToLower(password), ToLower(patterns[i])),
             tag |-> "ForbiddenPatterns", points |-> 20]]

PolicyResult(checks) ==
  LET violations == Hits(checks)
      score == 100 - Points(checks)
  IN  [Valid |-> Len(violations) = 0,
       Violations |-> violations,
       Score |-> IF score < 0 THEN 0 ELSE score]

ValidatePolicy_ZeroIsABound(password, policy) ==
  PolicyResult(PolicyChecks(password, policy, -1))

ValidatePolicy(password, policy) ==
  PolicyResult(PolicyChecks(password, policy, 0))

\* the passwords of the calls: up to MaxSegments of these pieces in a row
MaxSegments == 3

Segments ==
  {<<"k", "x", "m", "z", "p", "v", "b", "t">>,
   <<"Q", "W", "e", "1", "2", "3", "!", "!">>,
   <<"!", "!", "!", "!", "!", "!", "!", "!">>,
   <<"k", "x", "k", "x">>,
   <<"k", "x", "k">>,
   <<"P", "v", "7", "$">>,
   <<"p", "a", "s", "s", "w", "o", "r", "d">>,
   <<"a", "b", "c">>}

RECURSIVE Concats(_)
Concats(n) ==
  IF n = 0 THEN {<<>>}
  ELSE Concats(n - 1)
         \cup {s \o segment : s \in Concats(n - 1), segment \in Segments}

CheckedPasswords == Concats(MaxSegments)

ShortCheckedPasswords == Concats(MaxSegments - 1)

PolicyArgs ==
  [MinLength : {0, 12},
   MaxLength : {0, 10},
   RequireLower : BOOLEAN,
   RequireUpper : BOOLEAN,
   RequireNumbers : BOOLEAN,
   RequireSymbols : BOOLEAN,
   MinUniqueChars : {0, 6},
   ForbiddenPatterns : {<<>>, <<<<"P", "A", "S", "S">>>>, <<<<"!", "!">>, <<"K", "X", "K">>>>},
   MaxRepeatedChars : {0, 2}]

\* NewPasswordStrengthChecker(enableDictionaryCheck).CheckStrength(password)
DoCheckStrength ==
  /\ checked = NoCall
  /\ \E enableDictionaryCheck \in BOOLEAN, password \in CheckedPasswords :
       checked' = [status |-> "returned",
                   call |-> "CheckStrength",
                   enableDictionaryCheck |-> enableDictionaryCheck,
                   password |-> password,
                   result |-> CheckStrength(enableDictionaryCheck, password)]
  /\ UNCHANGED <<now, jwtVars, accountVars, roleVars, histories, gen,
               manager, managing, changed>>

\* NewPasswordPolicyValidator().ValidatePolicy(password, policy)
DoValidatePolicy ==
  /\ checked = NoCall
  /\ \E password \in ShortCheckedPasswords, policy \in PolicyArgs :
       checked' = [status |-> "returned",
                   call |-> "ValidatePolicy",
                   password |-> password,
                   policy |-> policy,
                   result |-> ValidatePolicy(password, policy)]
  /\ UNCHANGED <<now, jwtVars, accountVars, roleVars, histories, gen,
               manager, managing, changed>>

StrengthNext ==
  \/ DoCheckStrength
  \/ DoValidatePolicy

SpecStrength == RolesInit /\ [][StrengthNext]_vars

\* ------------------------------------------- password hasher and manager
MaxHashCalls == 2

\* a password of exactly the bytes bcrypt reads
LongPassword == [i \in 1..MaxPasswordBytes |-> "a"]

HasherPasswords ==
  {<<>>, <<"a">>, <<"b">>, <<"a", "NUL", "a">>,
   LongPassword, LongPassword \o <<"a">>, LongPassword \o <<"b">>}

\* PasswordHasher.SetCost: the cost of the hasher after the call
SetCost(cost, newCost) ==
  IF newCost >= MinCost /\ newCost <= MaxCost THEN newCost ELSE cost

CostArgs == {MinCost - 1, MinCost, DefaultCost, MaxCost, MaxCost + 1}

ManagerConfigArgs ==
  [BcryptCost : {MinCost, MaxCost + 1},
   MinStrengthScore : {60},
   EnableDictionaryCheck : BOOLEAN,
   HistoryCount : {2}]

\* hasher.Hash(password), called up to MaxHashCalls times with one password;
\* the salt of a call is fresh
DoHash ==
  /\ \/ /\ checked = NoCall
        /\ \E password \in HasherPasswords, errTooLong \in BOOLEAN :
             checked' = [status |-> "returned", call |-> "Hash",
                         password |-> password, errTooLong |-> errTooLong,
                         results |-> <<Hash(password, 1, errTooLong)>>]
     \/ /\ checked.status = "returned"
        /\ checked.call = "Hash"
        /\ Len(checked.results) < MaxHashCalls
        /\ checked' =
             [checked EXCEPT
                !.results = Append(@, Hash(checked.password, Len(@) + 1,
                                           checked.errTooLong))]
  /\ UNCHANGED <<now, jwtVars, accountVars, roleVars, histories, gen,
                 manager, managing, changed>>

\* hasher.Verify(password, hash)
DoVerify ==
  /\ checked = NoCall
  /\ \E password \in HasherPasswords,
        hash \in {EmptyHash, JunkHash}
                   \cup {Hash(p, 1, FALSE).hash : p \in HasherPasswords \ {<<>>}} :
       checked' = [status |-> "returned", call |-> "Verify",
                   password |-> password, hash |-> hash,
                   result |-> Verify(password, hash)]
  /\ UNCHANGED <<now, jwtVars, accountVars, roleVars, histories, gen,
                 manager, managing, changed>>

\* NewPasswordManager(config): a new manager with a new history storage
DoNewPasswordManager(configArgs) ==
  /\ managing = <<>>
  /\ \E managerConfig \in configArgs :
       manager' = NewPasswordManager(managerConfig)
  /\ histories' = EmptyMap
  /\ checked' = [status |-> "returned", call |-> "NewPasswordManager"]
  /\ changed' = EmptyMap
  /\ UNCHANGED <<now, jwtVars, accountVars, roleVars, gen, managing>>

\* hasher.SetCost(cost)
DoSetCost ==
  /\ \E newCost \in CostArgs :
       /\ manager' = [manager EXCEPT !.cost = SetCost(@, newCost)]
       /\ checked' = [status |-> "returned", call |-> "SetCost",
                      cost |-> newCost]
  /\ UNCHANGED <<now, jwtVars, accountVars, roleVars, histories, gen, managing,
                 changed>>

\* hasher.GetCost()
DoGetCost ==
  /\ manager.cost \in Int
  /\ UNCHANGED vars

\* UpdateConfig(config), which takes no lock, as the three assignments it
\* makes; a nil config returns at once
UpdateConfigStore(configArgs) ==
  /\ managing = <<>>
  /\ \E managerConfig \in configArgs :
       IF managerConfig = NilConfig
         THEN UNCHANGED <<manager, managing>>
         ELSE /\ manager' = [manager EXCEPT !.config = managerConfig]
              /\ managing' = <<[pc |-> "config", config |-> managerConfig,
                                before |-> manager]>>
  /\ UNCHANGED <<now, jwtVars, accountVars, roleVars, histories, gen, checked,
                 changed>>

UpdateConfigSetCost ==
  /\ managing # <<>>
  /\ managing[1].pc = "config"
  /\ manager' = [manager EXCEPT !.cost = SetCost(@, managing[1].config.BcryptCost)]
  /\ managing' = <<[managing[1] EXCEPT !.pc = "cost"]>>
  /\ UNCHANGED <<now, jwtVars, accountVars, roleVars, histories, gen, checked,
                 changed>>

UpdateConfigChecker ==
  /\ managing # <<>>
  /\ managing[1].pc = "cost"
  /\ manager' = [manager EXCEPT !.enableDictionaryCheck =
                                  managing[1].config.EnableDictionaryCheck]
  /\ managing' = <<>>
  /\ checked' = [status |-> "returned", call |-> "UpdateConfig"]
  /\ UNCHANGED <<now, jwtVars, accountVars, roleVars, histories, gen, changed>>

\* an operation of the manager reads the config, the cost of the hasher and
\* the flag of the strength checker, here without a write in between
DoObserve ==
  /\ checked' = [status |-> "returned", call |-> "Observe",
                 config |-> manager.config, cost |-> manager.cost,
                 enableDictionaryCheck |-> manager.enableDictionaryCheck,
                 update |-> managing]
  /\ UNCHANGED <<now, jwtVars, accountVars, roleVars, histories, gen,
                 manager, managing, changed>>

\* passwordManager.IsPasswordStrong
IsPasswordStrong(M, password) ==
  CheckStrength(M.enableDictionaryCheck, password).Score
    >= M.config.MinStrengthScore

\* passwordManager.ChangePassword: strength, history, hash, Add, Cleanup;
\* the error of the Cleanup is dropped
ChangePassword(M, H, userID, newPassword, salt, errTooLong) ==
  IF ~IsPasswordStrong(M, newPassword)
    THEN [err |-> "password_too_weak", hash |-> EmptyHash, histories |-> H]
  ELSE LET c == CheckHistory(H, userID, newPassword) IN
    IF c.err # "nil" THEN [err |-> c.err, hash |-> EmptyHash, histories |-> H]
    ELSE IF c.found
      THEN [err |-> "password_in_history", hash |-> EmptyHash, histories |-> H]
    ELSE LET h == Hash(newPassword, salt, errTooLong) IN
      IF h.err # "nil" THEN [err |-> h.err, hash |-> EmptyHash, histories |-> H]
      ELSE LET a == Add(H, userID, h.hash) IN
        IF a.err # "nil" THEN [err |-> a.err, hash |-> EmptyHash, histories |-> H]
        ELSE [err |-> "nil", hash |-> h.hash,
              histories |->
                Cleanup(a.histories, userID, M.config.HistoryCount).histories]

\* the passwords a caller changes to: four that differ in their last byte
\* and score 70, one that scores 30, and the empty one
MaxChanges == 4

StrongStem == <<"A", "b", "3", "!", "x", "Y", "7">>

ChangeArgs ==
  {StrongStem \o <<last>> : last \in {"#", "?", "%", "&"}}
    \cup {<<"p", "w", "1">>, <<>>}

ChangeConfigArgs ==
  [BcryptCost : {MinCost}, MinStrengthScore : {60},
   EnableDictionaryCheck : {TRUE}, HistoryCount : {1, 2}]

DoChangePassword ==
  \E userID \in 0..1, newPassword \in ChangeArgs, salt \in 1..MaxSalt,
     errTooLong \in BOOLEAN :
    LET r == ChangePassword(manager, histories, userID, newPassword, salt,
                            errTooLong)
    IN /\ r.err = "nil" => Len(Lookup(changed, userID, <<>>)) < MaxChanges
       /\ histories' = r.histories
       /\ changed' = IF r.err = "nil"
                       THEN Put(changed, userID,
                                Append(Lookup(changed, userID, <<>>), newPassword))
                       ELSE changed
       /\ UNCHANGED <<now, jwtVars, accountVars, roleVars, gen, checked,
                      manager, managing>>

ChangeNext ==
  \/ DoNewPasswordManager(ChangeConfigArgs)
  \/ DoChangePassword
  \/ DoCheckHistory

SpecChange == RolesInit /\ [][ChangeNext]_vars

ManagerNext ==
  \/ DoNewPasswordManager(ManagerConfigArgs \cup {NilConfig})
  \/ UpdateConfigStore(ManagerConfigArgs \cup {NilConfig})
  \/ UpdateConfigSetCost
  \/ UpdateConfigChecker
  \/ DoObserve

SpecManager == RolesInit /\ [][ManagerNext]_vars

HasherNext ==
  \/ DoHash
  \/ DoVerify
  \/ DoNewPasswordManager(ManagerConfigArgs \cup {NilConfig})
  \/ DoSetCost
  \/ DoGetCost

SpecHasher == RolesInit /\ [][HasherNext]_vars

\* ------------------------------------------------------------------ claims
\* the string parses as a JWT when the signature is not looked at
Parses(tokenString) == parseTokenUnsafe(tokenString).err = "nil"

\* the expiry time of the string, if it has one, has not passed
NotPastExpiry(tokenString) == tokenString.exp = NoExp \/ now <= tokenString.exp

\* C1 as stated: a string whose revocation has succeeded fails validation
\* with the revoked error for as long as its own expiry time has not passed.
C1_RevocationFinality ==
  \A tokenString \in everRevoked :
    NotPastExpiry(tokenString) =>
      ValidateToken(Maps, tokenString, now).err = "revoked"

\* C1 amended: a string that parses as a JWT and whose revocation has
\* succeeded fails validation with the revoked error, after any calls, for as
\* long as its expiry time has not passed.
C1_RevocationFinalityOfParsedTokens ==
  \A tokenString \in everRevoked :
    Parses(tokenString) /\ NotPastExpiry(tokenString) =>
      ValidateToken(Maps, tokenString, now).err = "revoked"

\* an issued token was revoked, time has passed, a cleanup has removed
\* another revoked string, and the token has not reached its expiry
C1_Witness ==
  \E tokenString \in issued \cap DOMAIN revokedTokens :
    /\ revokedTokens[tokenString] < now
    /\ now <= tokenString.exp
    /\ everRevoked \ DOMAIN revokedTokens # {}

\* C2: a string that was revoked by RevokeToken, RevokeAllUserTokens or as the
\* predecessor in RefreshToken never validates again, also after cleanup has
\* removed its entry from the revocation map.
C2_NeverResurrected ==
  \A tokenString \in everRevoked :
    ValidateToken(Maps, tokenString, now).err # "nil"

\* an issued token was revoked and cleanup has removed its entry
C2_Witness ==
  \E tokenString \in issued \cap everRevoked :
    tokenString \notin DOMAIN revokedTokens

\* the calls GenerateTokenWithExpiration accepts
ValidUsers == UserIDs \ {0}

\* C3 as stated: for every identity other than 0 and every ttl above 0 the
\* token is generated and validates to that identity before the ttl elapses
\* (here: at the time of issue).
C3_RoundTrip ==
  \A userID \in ValidUsers, expiration \in Durations :
    LET g == GenerateTokenWithExpiration(Maps, userID, expiration, now, nextJTI + 1) IN
      /\ g.err = "nil"
      /\ ValidateToken(g.maps, g.token, now) = [err |-> "nil", userID |-> userID]

\* C3 amended: generation succeeds for every identity other than 0 and every
\* ttl above 0, and the token validates to that identity exactly while the
\* clock is before issue time + ttl truncated to a whole second, as long as
\* it is not revoked; from then on validation fails as expired.
C3_RoundTripUntilTruncatedExpiry ==
  /\ \A userID \in ValidUsers, expiration \in Durations :
       LET g == GenerateTokenWithExpiration(Maps, userID, expiration, now, nextJTI + 1)
           limit == NewNumericDate(now + expiration)
       IN /\ g.err = "nil"
          /\ \A later \in now..(now + expiration) :
               ValidateToken(g.maps, g.token, later) =
                 IF later < limit THEN [err |-> "nil", userID |-> userID]
                                  ELSE [err |-> "parse_expired", userID |-> 0]
  /\ \A tokenString \in issued \ DOMAIN revokedTokens :
       ValidateToken(Maps, tokenString, now) =
         IF now < tokenString.exp THEN [err |-> "nil", userID |-> tokenString.user]
         ELSE [err |-> "parse_expired", userID |-> 0]

\* a token issued earlier is unrevoked and valid while other calls have acted
C3_Witness ==
  \E tokenString \in issued \ everRevoked :
    /\ 0 < now
    /\ now < tokenString.exp
    /\ ValidateToken(Maps, tokenString, now).userID = tokenString.user
    /\ everRevoked # {}

\* C4 as stated: after a successful RefreshToken(old) the old token is
\* revoked, the new one differs from it, is not revoked, and validates to the
\* identity the old one carried.
C4_RefreshRevokesPredecessor ==
  \A tokenString \in TokenArgs :
    LET r == RefreshToken(Maps, config, tokenString, now, nextJTI + 1) IN
      r.err = "nil" =>
        /\ IsTokenRevoked(r.maps, tokenString)
        /\ r.token # tokenString
        /\ ~IsTokenRevoked(r.maps, r.token)
        /\ ValidateToken(r.maps, r.token, now) =
             [err |-> "nil", userID |-> tokenString.user]

\* C4 amended: after a successful RefreshToken(old) the old token is revoked,
\* the new one differs from it and is not revoked; the new one validates to
\* the identity of the old one when the current time + DefaultExpiration,
\* truncated to a whole second, is after the current time, and fails
\* validation as expired otherwise.
C4_RefreshRevokesPredecessorNewValidIfUnexpired ==
  \A tokenString \in TokenArgs :
    LET r == RefreshToken(Maps, config, tokenString, now, nextJTI + 1) IN
      r.err = "nil" =>
        /\ IsTokenRevoked(r.maps, tokenString)
        /\ r.token # tokenString
        /\ ~IsTokenRevoked(r.maps, r.token)
        /\ ValidateToken(r.maps, r.token, now) =
             IF now < NewNumericDate(now + config.DefaultExpiration)
               THEN [err |-> "nil", userID |-> tokenString.user]
               ELSE [err |-> "parse_expired", userID |-> 0]

\* a refresh has succeeded: its token is valid and its predecessor revoked
C4_Witness ==
  \E tokenString \in issued :
    /\ lineage[tokenString].depth > 0
    /\ ValidateToken(Maps, tokenString, now).err = "nil"
    /\ \E old \in DOMAIN revokedTokens : RootOf(old) = lineage[tokenString].root

\* an issued, never revoked token reached by refreshing, each time, the never
\* revoked token the previous refresh returned
ChainHead(tokenString) ==
  /\ tokenString \in issued
  /\ lineage[tokenString].chain
  /\ tokenString \notin everRevoked

\* C5: along a chain that starts at a generated token and always refreshes
\* the token the previous refresh returned, the refresh count of the head is
\* the number of refreshes made, a refresh of a head that parses succeeds
\* (inside the refresh window) while fewer than MaxRefreshCount were made and
\* fails with the limit error, issuing nothing, once MaxRefreshCount were.
C5_RefreshChainCap ==
  \A tokenString \in TokenArgs :
    ChainHead(tokenString) =>
      LET made == lineage[tokenString].depth
          r == RefreshToken(Maps, config, tokenString, now, nextJTI + 1)
      IN /\ Lookup(refreshCounts, tokenString, 0) = made
         /\ config.AllowRefresh => made <= config.MaxRefreshCount
         /\ config.AllowRefresh /\ ParseToken(tokenString, now).err = "nil" =>
              IF made = config.MaxRefreshCount
                THEN r = [err |-> "refresh_limit", token |-> EmptyToken, maps |-> Maps]
                ELSE r.err = IF TooEarly(config, tokenString, now)
                               THEN "refresh_too_early" ELSE "nil"

\* MaxRefreshCount refreshes were made along a chain and the next one fails
C5_Witness ==
  \E tokenString \in TokenArgs :
    /\ ChainHead(tokenString)
    /\ config.MaxRefreshCount > 0
    /\ lineage[tokenString].depth = config.MaxRefreshCount
    /\ RefreshToken(Maps, config, tokenString, now, nextJTI + 1).err = "refresh_limit"

\* the tokens obtained by refreshing in the lineage rooted at a token
RefreshedFrom(root) ==
  {tokenString \in issued :
     lineage[tokenString].root = root /\ lineage[tokenString].depth > 0}

\* C6: in the lineage rooted at one generated token the number of successful
\* refreshes never exceeds MaxRefreshCount.
C6_LineageCap ==
  \A root \in issued :
    lineage[root].depth = 0 =>
      Cardinality(RefreshedFrom(root)) <= config.MaxRefreshCount

\* the list the per-identity index holds for a user, empty when it has no entry
TokensOf(S, userID) == Lookup(S.userTokens, userID, <<>>)

\* C7: in every state, those between the critical sections of a RefreshToken
\* call interleaved with Generate, Revoke and RevokeAll calls included, a
\* token is in userTokens[u] exactly when tokenUsers maps it to u, and no
\* token appears twice in a user's list.
C7_IndicesAgree ==
  /\ \A userID \in DOMAIN userTokens :
       /\ \A tokenString \in Range(userTokens[userID]) :
            tokenString \in DOMAIN tokenUsers /\ tokenUsers[tokenString] = userID
       /\ Cardinality(Range(userTokens[userID])) = Len(userTokens[userID])
  /\ \A tokenString \in DOMAIN tokenUsers :
       /\ tokenUsers[tokenString] \in DOMAIN userTokens
       /\ tokenString \in Range(userTokens[tokenUsers[tokenString]])

\* a RefreshToken call has indexed its new token and is about to revoke the
\* old one, which a RevokeToken call running in between has already revoked
\* and taken out of both indices
C7_Witness ==
  /\ refreshing.pc = "revoke"
  /\ refreshing.old \in DOMAIN revokedTokens
  /\ refreshing.old \notin DOMAIN tokenUsers
  /\ TokensOf(Maps, refreshing.old.user) = <<refreshing.newToken>>
  /\ refreshing.newToken \in DOMAIN tokenUsers

C9_RevokeIdempotent ==
  \A tokenString \in DOMAIN revokedTokens :
    RevokeToken(Maps, tokenString, now) = [err |-> "nil", maps |-> Maps]

\* C9 amended: RevokeToken of an already revoked token returns no error and
\* leaves the maps as they were, except that the recorded revocation time of
\* the token becomes the time of this call.
C9_RevokeIdempotentButForTheTime ==
  \A tokenString \in DOMAIN revokedTokens :
    RevokeToken(Maps, tokenString, now) =
      [err |-> "nil",
       maps |-> [Maps EXCEPT !.revokedTokens = Put(@, tokenString, now)]]

\* an issued token was revoked at an earlier time than now, with other
\* tokens indexed and counted
C9_Witness ==
  \E tokenString \in issued \cap DOMAIN revokedTokens :
    /\ revokedTokens[tokenString] < now
    /\ DOMAIN tokenUsers # {}
    /\ DOMAIN refreshCounts # {}

\* C10 as stated: the only entries CleanupExpiredTokens removes are those of
\* strings whose own expiry time is strictly in the past.
C10_CleanupOnlyExpired ==
  \A tokenString \in DOMAIN revokedTokens :
    tokenString \notin DOMAIN CleanupExpiredTokens(Maps, now).maps.revokedTokens =>
      tokenString.exp # NoExp /\ tokenString.exp < now

\* C10 amended: CleanupExpiredTokens removes only entries of strings that do
\* not parse as a JWT or whose expiry time is strictly in the past, and
\* changes nothing else; a revoked string that parses and whose expiry has
\* not passed, or that has no expiry, stays revoked across all cleanups.
C10_CleanupOnlyExpiredOrUnparsed ==
  /\ LET r == CleanupExpiredTokens(Maps, now) IN
       /\ r.err = "nil"
       /\ r.maps.userTokens = userTokens
       /\ r.maps.tokenUsers = tokenUsers
       /\ r.maps.refreshCounts = refreshCounts
       /\ DOMAIN r.maps.revokedTokens \subseteq DOMAIN revokedTokens
       /\ \A tokenString \in DOMAIN revokedTokens :
            IF tokenString \in DOMAIN r.maps.revokedTokens
              THEN r.maps.revokedTokens[tokenString] = revokedTokens[tokenString]
              ELSE \/ ~Parses(tokenString)
                   \/ tokenString.exp # NoExp /\ tokenString.exp < now
  /\ \A tokenString \in everRevoked :
       Parses(tokenString) /\ NotPastExpiry(tokenString) =>
         IsTokenRevoked(Maps, tokenString)

\* cleanup has removed the entry of an expired issued token and has kept the
\* entry of a revoked token without expiry
C10_Witness ==
  /\ NoExpToken \in DOMAIN revokedTokens
  /\ revokedTokens[NoExpToken] < now
  /\ \E tokenString \in issued \cap everRevoked :
       tokenString \notin DOMAIN revokedTokens

\* C11: whenever RefreshToken returns an error, whichever it is, it returns no
\* token and the revocation map, both indices and the refresh counts are what
\* they were before the call.
C11_RefreshAllOrNothing ==
  \A tokenString \in TokenArgs :
    LET r == RefreshToken(Maps, config, tokenString, now, nextJTI + 1) IN
      r.err # "nil" => r.maps = Maps /\ r.token = EmptyToken

\* tokens are indexed, one of them has a refresh count, and a refresh fails
\* after the parse, the limit and the window have let it through: the
\* generation for user 0 is refused
C11_Witness ==
  /\ DOMAIN tokenUsers # {}
  /\ DOMAIN refreshCounts # {}
  /\ \E tokenString \in TokenArgs :
       RefreshToken(Maps, config, tokenString, now, nextJTI + 1).err = "generate_failed"

\* the errors ParseToken gives for a string that is not the empty one
ParseErrors == {"parse_malformed", "parse_signature", "parse_expired"}

\* C12 as stated, for a service that allows refreshing: for an issued token
\* with expiry E and window W a refresh at time now fails with the too-early
\* error when now < E - W, fails with a parse error when now > E, and
\* succeeds only when E - W <= now <= E.
C12_RefreshWindow ==
  config.AllowRefresh =>
    \A tokenString \in issued :
      LET r == RefreshToken(Maps, config, tokenString, now, nextJTI + 1)
          E == tokenString.exp
          W == config.RefreshExpiration
      IN /\ now < E - W => r.err = "refresh_too_early"
         /\ now > E => r.err \in ParseErrors
         /\ r.err = "nil" => E - W <= now /\ now <= E

\* C12: a refresh of an issued token with expiry E and window W fails when
\* now < E - W, and with the too-early error when refreshing is allowed and
\* the count of the token is below MaxRefreshCount (the two checks made
\* before the window); when refreshing is allowed it fails with the expiry
\* error from now = E on; it succeeds only when E - W <= now < E.
C12_RefreshWindowAfterEarlierChecks ==
  \A tokenString \in issued :
    LET r == RefreshToken(Maps, config, tokenString, now, nextJTI + 1)
        E == tokenString.exp
        W == config.RefreshExpiration
        inLimit == Lookup(refreshCounts, tokenString, 0) < config.MaxRefreshCount
    IN /\ now < E - W =>
            /\ r.err # "nil"
            /\ config.AllowRefresh /\ inLimit <=> r.err = "refresh_too_early"
            /\ ~config.AllowRefresh => r.err = "refresh_disabled"
            /\ config.AllowRefresh /\ ~inLimit => r.err = "refresh_limit"
       /\ now >= E /\ config.AllowRefresh => r.err = "parse_expired"
       /\ r.err = "nil" => E - W <= now /\ now < E

\* one issued token is refused as too early and another, at the same time,
\* is past its expiry and refused by the parse
C12_Witness ==
  /\ \E tokenString \in issued :
       /\ now < tokenString.exp - config.RefreshExpiration
       /\ RefreshToken(Maps, config, tokenString, now, nextJTI + 1).err
            = "refresh_too_early"
  /\ \E tokenString \in issued :
       /\ now > tokenString.exp
       /\ RefreshToken(Maps, config, tokenString, now, nextJTI + 1).err
            = "parse_expired"

\* C13: ValidateToken gives the empty-token error for the empty string; the
\* revoked error for every other string that is in the revocation map,
\* whether or not it would parse, verify or be unexpired; and otherwise the
\* result of the parse: the identity the token carries when it is well
\* formed, signed with the service's key and unexpired, a parse error if not.
C13_ValidateOrder ==
  \A tokenString \in TokenArgs :
    LET v == ValidateToken(Maps, tokenString, now) IN
      IF tokenString = EmptyToken THEN v.err = "empty_token"
      ELSE IF tokenString \in DOMAIN revokedTokens THEN v.err = "revoked"
      ELSE /\ v = ParseToken(tokenString, now)
           /\ v.err \in {"nil"} \cup ParseErrors
           /\ v.err = "nil" <=>
                /\ tokenString.kind = "jwt"
                /\ tokenString.key = "svc"
                /\ tokenString.exp = NoExp \/ now < tokenString.exp
           /\ v.err = "nil" => v.userID = tokenString.user

\* the revocation map holds a string that does not parse or does not verify
\* and an issued token that has expired: both get the revoked error
C13_Witness ==
  /\ foreign \in DOMAIN revokedTokens
  /\ ParseToken(foreign, now).err \in {"parse_malformed", "parse_signature"}
  /\ ValidateToken(Maps, foreign, now).err = "revoked"
  /\ \E tokenString \in issued :
       /\ tokenString \in DOMAIN revokedTokens
       /\ ParseToken(tokenString, now).err = "parse_expired"
       /\ ValidateToken(Maps, tokenString, now).err = "revoked"

\* what every state reached by complete calls made one after the other
\* satisfies: RevokeToken and RevokeAllUserTokens drop the refresh count of
\* what they revoke, and RefreshToken gives a count only to a token it has
\* just generated, so no revoked token has a refresh count
NoRevokedTokenCounted ==
  \A tokenString \in DOMAIN revokedTokens : tokenString \notin DOMAIN refreshCounts

\* C14: when every call has returned, a RefreshToken call that ran
\* concurrently with RevokeToken, RevokeAllUserTokens and CleanupExpiredTokens
\* calls included, the maps are those that some sequential order of the same
\* calls leaves; in particular they satisfy what every sequential execution
\* satisfies.
C14_QuiescentStatesAreSequential ==
  refreshing = Idle => NoRevokedTokenCounted

\* C15: when GenerateToken and RevokeToken calls interleave, the tokens
\* returned are distinct, each of them is in the list of its identity and in
\* the reverse index until it is revoked, and once its revocation has
\* returned it is IsTokenRevoked and in neither index.
C15_NoLostUpdates ==
  /\ \A a, b \in issued : a.jti = b.jti => a = b
  /\ \A tokenString \in issued \ everRevoked :
       /\ tokenString \in Range(TokensOf(Maps, tokenString.user))
       /\ tokenString \in DOMAIN tokenUsers
       /\ tokenUsers[tokenString] = tokenString.user
  /\ \A tokenString \in issued \cap everRevoked :
       /\ IsTokenRevoked(Maps, tokenString)
       /\ tokenString \notin DOMAIN tokenUsers
       /\ \A userID \in DOMAIN userTokens :
            tokenString \notin Range(userTokens[userID])

\* several tokens were generated for one identity and all of them revoked
C15_Witness ==
  /\ Cardinality(issued) > MaxTokens
  /\ \A a, b \in issued : a.user = b.user
  /\ issued \subseteq everRevoked
  /\ \A tokenString \in issued : IsTokenRevoked(Maps, tokenString)
  /\ \A userID \in DOMAIN userTokens : userTokens[userID] = <<>>

\* the password a stored user was created with
CreatedWith(user) ==
  IF user.passwordHash.kind = "argon2" THEN user.passwordHash.of
  ELSE user.passwordHash

\* C16: Login with an unknown username and Login of an Active user with a
\* wrong password fail with the same error, bad credentials; Login of a
\* Disabled user with the right password fails with the disabled error; in
\* each case no token is returned and nothing, LastLoginAt included, changes.
C16_UniformLoginFailure ==
  \A username \in Usernames, password \in PasswordArgs :
    LET r == Login(Accounts, username, password, now)
        g == GetUserByUsername(sysUsers, username)
        refused == r.token = EmptyToken /\ r.accounts = Accounts
    IN /\ g.err # "nil" => r.err = "bad_credentials" /\ refused
       /\ g.err = "nil" /\ g.user.status = 1 /\ password # CreatedWith(g.user) =>
            r.err = "bad_credentials" /\ refused
       /\ g.err = "nil" /\ g.user.status # 1 /\ password = CreatedWith(g.user) =>
            r.err = "user_disabled" /\ refused

\* C17: no two stored users share a username or an email; Register with a
\* username that exists fails with the username-exists error, with a new
\* username and an email that exists with the email-exists error; either way
\* no user is created, no token is returned, and every stored Active user
\* can still log in with the password it was created with.
C17_RegistrationUniqueness ==
  /\ \A i, j \in DOMAIN sysUsers :
       i # j => /\ sysUsers[i].username # sysUsers[j].username
                /\ sysUsers[i].email # sysUsers[j].email
  /\ \A username \in Usernames, email \in Emails, password \in Plaintexts,
        invitationCode \in InvitationCodes :
       LET r == Register(Accounts, username, email, password, invitationCode, now)
           nameTaken == \E i \in DOMAIN sysUsers : sysUsers[i].username = username
           emailTaken == \E i \in DOMAIN sysUsers : sysUsers[i].email = email
       IN /\ nameTaken => r.err = "username_exists"
          /\ ~nameTaken /\ emailTaken => r.err = "email_exists"
          /\ nameTaken \/ emailTaken =>
               /\ r.token = EmptyToken
               /\ r.accounts = Accounts
               /\ \A i \in DOMAIN sysUsers :
                    /\ sysUsers[i].status = 1
                    /\ sysUsers[i].passwordHash.kind = "argon2"
                    => Login(r.accounts, sysUsers[i].username,
                             CreatedWith(sysUsers[i]), now).err = "nil"

\* one user is stored and Active; a registration under another username with
\* the email of that user is refused
C17_Witness ==
  /\ Len(sysUsers) = 1
  /\ sysUsers[1].status = 1
  /\ sysUsers[1].passwordHash.kind = "argon2"
  /\ \E username \in Usernames :
       /\ username # sysUsers[1].username
       /\ Register(Accounts, username, sysUsers[1].email, Plain("pw1"), "", now).err
            = "email_exists"

\* C18: every user created with a non-empty plaintext password has a stored
\* PasswordHash of the salt$hash form that differs from the plaintext; Login
\* with the plaintext succeeds while the user is Active, and Login with the
\* stored hash string as the password fails.
C18_PasswordAlwaysHashed ==
  \A i \in DOMAIN sysUsers :
    LET user == sysUsers[i] IN
      CreatedWith(user) # EmptyPassword =>
        /\ user.passwordHash.kind = "argon2"
        /\ user.passwordHash # CreatedWith(user)
        /\ user.status = 1 =>
             Login(Accounts, user.username, CreatedWith(user), now).err = "nil"
        /\ Login(Accounts, user.username, user.passwordHash, now).err # "nil"

\* C19: RefreshToken of authService / loginService, applied at any time to a
\* session token that validates, returns a different token that validates
\* for the same user, and the old token no longer validates.
C19_SessionRefresh ==
  \A tokenString \in sessionTokens :
    SessionValidate(sessionRevoked, tokenString, now).err = "nil" =>
      LET r == SessionRefresh(Accounts, tokenString, now) IN
        /\ r.err = "nil"
        /\ r.token # tokenString
        /\ SessionValidate(r.accounts.revoked, tokenString, now).err # "nil"
        /\ SessionValidate(r.accounts.revoked, r.token, now)
             = [err |-> "nil", userID |-> tokenString.user]

\* the pair is a row of the table
Assigned(T, a, b) == \E i \in DOMAIN T : T[i] = <<a, b>>

\* C20: assigning a pair that is already assigned fails with the duplicate
\* error and leaves the table as it is; removing a pair that is not assigned
\* succeeds and leaves the table as it is; after a pair is assigned and then
\* removed HasRole, respectively GetRolePermissions, does not report it.
C20_AssignRemove ==
  /\ \A userID \in 1..MaxUser, roleID \in RoleIDs :
       LET a == AssignRoleToUser(userRoles, userID, roleID)
           d == RemoveRoleFromUser(userRoles, userID, roleID)
       IN /\ Assigned(userRoles, userID, roleID) =>
               a.err = "role_already_assigned" /\ a.rows = userRoles
          /\ ~Assigned(userRoles, userID, roleID) =>
               /\ d.err = "nil" /\ d.rows = userRoles
               /\ a.err = "nil" /\ HasRole(a.rows, userID, RoleNameOf(roleID))
               /\ ~HasRole(RemoveRoleFromUser(a.rows, userID, roleID).rows,
                           userID, RoleNameOf(roleID))
          /\ d.err = "nil" /\ ~HasRole(d.rows, userID, RoleNameOf(roleID))
  /\ \A roleID \in RoleIDs, permissionID \in PermissionIDs :
       LET a == AssignPermissionToRole(rolePermissions, roleID, permissionID)
           d == RemovePermissionFromRole(rolePermissions, roleID, permissionID)
       IN /\ Assigned(rolePermissions, roleID, permissionID) =>
               a.err = "permission_already_assigned" /\ a.rows = rolePermissions
          /\ ~Assigned(rolePermissions, roleID, permissionID) =>
               /\ d.err = "nil" /\ d.rows = rolePermissions
               /\ a.err = "nil" /\ permissionID \in GetRolePermissions(a.rows, roleID)
               /\ permissionID \notin
                    GetRolePermissions(
                      RemovePermissionFromRole(a.rows, roleID, permissionID).rows,
                      roleID)
          /\ d.err = "nil" /\ permissionID \notin GetRolePermissions(d.rows, roleID)

\* the user-role table has several rows, a user holds one role and not
\* another; a role holds a permission
C20_Witness ==
  /\ \E userID \in 1..MaxUser :
       /\ HasRole(userRoles, userID, RoleNameOf(MaxRole))
       /\ ~HasRole(userRoles, userID, RoleNameOf(1))
       /\ Len(userRoles) > 1
  /\ \E roleID \in RoleIDs : GetRolePermissions(rolePermissions, roleID) # {}

\* C21: the user-role table holds at most one row per (userID, roleID) and
\* the role-permission table at most one row per (roleID, permissionID), in
\* every reachable state, also when Assign calls for the same pair overlap.
C21_PairUniqueness ==
  /\ \A i, j \in DOMAIN userRoles : userRoles[i] = userRoles[j] => i = j
  /\ \A i, j \in DOMAIN rolePermissions :
       rolePermissions[i] = rolePermissions[j] => i = j

\* C22: with the store answering, HasPermission(u, res, act) is true exactly
\* when some role r and some permission p of sys_permissions have (u, r) and
\* (r, p) assigned and p carries res and act; HasRole(u, name) is true exactly
\* when a role of sys_roles named name is assigned to u; a store error is
\* what the caller gets, with a false decision.
C22_DecisionsAreTheJoin ==
  \A userID \in 1..MaxUser, dbErr \in StoreErrors :
    /\ \A resource \in Resources, action \in PermissionActions :
         LET d == Decision(HasPermission(userRoles, rolePermissions, userID,
                                         resource, action), dbErr)
         IN /\ d.err = dbErr
            /\ dbErr # "nil" => ~d.ok
            /\ dbErr = "nil" =>
                 (d.ok <=>
                    \E r \in RoleIDs \cup AuthzRoles, p \in PermissionIDs :
                      /\ Assigned(userRoles, userID, r)
                      /\ Assigned(rolePermissions, r, p)
                      /\ PermissionOf(p) = [Resource |-> resource, Action |-> action])
    /\ \A roleID \in RoleIDs \cup AuthzRoles :
         LET d == Decision(HasRole(userRoles, userID, RoleNameOf(roleID)), dbErr)
         IN /\ d.err = dbErr
            /\ dbErr # "nil" => ~d.ok
            /\ dbErr = "nil" =>
                 (d.ok <=> \E r \in RoleIDs :
                             RoleNameOf(r) = RoleNameOf(roleID)
                             /\ Assigned(userRoles, userID, r))

\* a user reads "doc" through a role and may not write it, while the same
\* role also holds a permission id without a row in sys_permissions, and
\* another user holds only a role id without a row in sys_roles
C22_Witness ==
  \E u, v \in 1..MaxUser :
    /\ HasPermission(userRoles, rolePermissions, u, "doc", "read")
    /\ ~HasPermission(userRoles, rolePermissions, u, "doc", "write")
    /\ \E r \in AuthzRoles :
         /\ Assigned(userRoles, u, r)
         /\ Assigned(rolePermissions, r, MaxPermission + 1)
    /\ Assigned(userRoles, v, MaxRole + 1)
    /\ \A r \in RoleIDs : ~HasRole(userRoles, v, RoleNameOf(r))
    /\ ~HasPermission(userRoles, rolePermissions, v, "doc", "read")

\* what lets the bearer of a header in: the header is "Bearer <token>", the
\* token was issued by the token service, is not revoked and not expired,
\* and its user is a stored, active user
Authenticated(authHeader) ==
  /\ Len(authHeader) = 2 /\ authHeader[1] = "Bearer"
  /\ authHeader[2] \in sessionTokens \ sessionRevoked
  /\ now < authHeader[2].exp
  /\ authHeader[2].user \in Visible(sysUsers)
  /\ sysUsers[authHeader[2].user].status = 1
  /\ AuthValidateToken(Accounts, authHeader[2], now).err = "nil"

\* C23: RequireAuth calls the wrapped handler only for a header of the form
\* "Bearer <token>" whose token authService.ValidateToken accepts;
\* RequirePermission and RequireRole only if, in addition, HasPermission,
\* respectively HasRole, returned true without error; every other request
\* is answered 401, 403 or 500 and the wrapped handler is not called.
C23_NoPassWithoutAuth ==
  \A authHeader \in HeaderArgs, dbErr \in StoreErrors :
    /\ LET a == RequireAuth(Accounts, authHeader, now)
       IN /\ a.next => Authenticated(authHeader) /\ a.user = sysUsers[authHeader[2].user]
          /\ ~a.next => a.status \in {401, 403, 500}
    /\ \A resource \in Resources, action \in PermissionActions :
         LET a == RequirePermission(Accounts, userRoles, rolePermissions,
                                    authHeader, now, resource, action, dbErr)
         IN /\ a.next =>
                 /\ Authenticated(authHeader)
                 /\ dbErr = "nil"
                 /\ HasPermission(userRoles, rolePermissions,
                                  authHeader[2].user, resource, action)
            /\ ~a.next => a.status \in {401, 403, 500}
    /\ \A roleID \in RoleIDs :
         LET a == RequireRole(Accounts, userRoles, authHeader, now,
                              RoleNameOf(roleID), dbErr)
         IN /\ a.next =>
                 /\ Authenticated(authHeader)
                 /\ dbErr = "nil"
                 /\ HasRole(userRoles, authHeader[2].user, RoleNameOf(roleID))
            /\ ~a.next => a.status \in {401, 403, 500}

\* one request passes RequirePermission while, in the same state, the same
\* token under the scheme "bearer" gets 401, a second user's token gets 403,
\* and a revoked token gets 401
C23_Witness ==
  \E t1, t2, t3 \in sessionTokens :
    /\ RequirePermission(Accounts, userRoles, rolePermissions, <<"Bearer", t1>>,
                         now, "doc", "read", "nil").next
    /\ RequireAuth(Accounts, <<"bearer", t1>>, now).status = 401
    /\ RequireAuth(Accounts, <<"Bearer", t2>>, now).next
    /\ RequirePermission(Accounts, userRoles, rolePermissions, <<"Bearer", t2>>,
                         now, "doc", "read", "nil").status = 403
    /\ t3 \in sessionRevoked
    /\ RequireAuth(Accounts, <<"Bearer", t3>>, now).status = 401

\* the entries of a list are in order of decreasing CreatedAt
NewestFirst(list) ==
  \A i, j \in DOMAIN list : i < j => list[i].createdAt > list[j].createdAt

\* the n entries of a list with the latest CreatedAt
MostRecent(list, n) ==
  {e \in Range(list) :
     Cardinality({f \in Range(list) : f.createdAt > e.createdAt}) < n}

\* C24: Cleanup(identity, keepCount), keepCount >= 0, leaves exactly the
\* min(keepCount, size) most recently added entries of the identity, changes
\* nothing when the history is within the bound, and GetHistory afterwards
\* returns the entries newest first.
C24_CleanupKeepsMostRecent ==
  \A userID \in UserIDs \ {0}, keepCount \in 0..MaxHistory :
    LET before == Lookup(histories, userID, <<>>)
        c == Cleanup(histories, userID, keepCount)
        after == Lookup(c.histories, userID, <<>>)
    IN /\ c.err = "nil"
       /\ Range(after) = MostRecent(before, keepCount)
       /\ Len(after) = IF keepCount < Len(before) THEN keepCount ELSE Len(before)
       /\ Len(before) <= keepCount => c.histories = histories
       /\ NewestFirst(GetHistory(c.histories, userID, 0).result)

\* C25: AddToHistory(id, Hash(P)) with id # 0 succeeds and CheckHistory(id, P)
\* is true afterwards; a true CheckHistory(id, P) stays true over every Add
\* and over every Cleanup that leaves an entry made from P; it is false after
\* Cleanup(id, 0); the answer for one identity does not change with the
\* history of another; AddToHistory with id = 0 or an empty hash fails and
\* stores nothing.
C25_HistoryPreventsReuse ==
  \A userID \in UserIDs, password \in Passwords \ {<<>>}, salt \in 1..MaxSalt :
    LET a == Add(histories, userID, Hash(password, salt, FALSE).hash)
        e == Add(histories, userID, EmptyHash)
    IN /\ e.err # "nil" /\ e.histories = histories
       /\ userID = 0 => a.err # "nil" /\ a.histories = histories
       /\ userID # 0 =>
            /\ a.err = "nil"
            /\ CheckHistory(a.histories, userID, password).found
            /\ ~CheckHistory(Cleanup(a.histories, userID, 0).histories,
                             userID, password).found
            /\ \A other \in UserIDs \ {0, userID}, q \in Passwords :
                 /\ CheckHistory(a.histories, other, q)
                      = CheckHistory(histories, other, q)
                 /\ \A keepCount \in 0..MaxHistory :
                      CheckHistory(Cleanup(histories, userID, keepCount).histories,
                                   other, q)
                        = CheckHistory(histories, other, q)
            /\ CheckHistory(histories, userID, password).found =>
                 /\ \A v \in UserIDs, hash \in HashArgs :
                      CheckHistory(Add(histories, v, hash).histories,
                                   userID, password).found
                 /\ \A keepCount \in 0..MaxHistory :
                      LET kept == Lookup(Cleanup(histories, userID, keepCount).histories,
                                         userID, <<>>)
                      IN (\E i \in DOMAIN kept :
                            kept[i].hash.kind = "bcrypt"
                            /\ kept[i].hash.of = Key(password))
                           => CheckHistory(Cleanup(histories, userID, keepCount).histories,
                                           userID, password).found

\* one identity has "pw1" in a history of several entries, with "pw1" not
\* the newest of them and stored after a cut; another identity has only "pw2"
C25_Witness ==
  \E userID, other \in UserIDs \ {0} :
    /\ CheckHistory(histories, userID, <<"p", "w", "1">>).found
    /\ ~Verify(<<"p", "w", "1">>, GetHistory(histories, userID, 1).result[1].hash)
    /\ ~NewestFirst(GetHistory(histories, userID, 0).result)
    /\ ~CheckHistory(histories, other, <<"p", "w", "1">>).found
    /\ CheckHistory(histories, other, <<"p", "w", "2">>).found

\* the call in progress or made
Generating == gen.status \in {"running", "returning"}

Generated == gen.status = "returned"

\* C26: for valid options GeneratePassword returns a string: some password
\* of the character set is one the call can return; what it returns has
\* options.Length characters, each a character of the resolved set; without
\* a custom set and with Length not below the number of included classes,
\* every included class occurs in it.
C26_GeneratorSatisfiesConstraints ==
  /\ Generating =>
       \E password \in Candidates(buildCharset(gen.options), gen.options.Length) :
         meetsRequirements(password, gen.options)
  /\ Generated =>
       /\ Len(gen.value) = gen.options.Length
       /\ \A i \in DOMAIN gen.value :
            gen.value[i] \in Range(buildCharset(gen.options)) \ Range(MultiByteChar)
       /\ (gen.options.CustomCharset = <<>>
           /\ gen.options.Length >= Cardinality(gen.options.Include)) =>
            \A class \in gen.options.Include :
              ContainsAny(gen.value, ClassChars(class))

\* what GeneratePassword rejects according to the claim
EmptyResolvedSet(options) ==
  \/ options.Include = {} /\ options.CustomCharset = <<>>
  \/ /\ options.CustomCharset # <<>>
     /\ options.ExcludeAmbiguous
     /\ Range(options.CustomCharset) \subseteq Range(AmbiguousChars)

\* C27: with ExcludeAmbiguous no character of AmbiguousChars is in a
\* returned password; options with an empty resolved character set, with
\* Length <= 0 or with Length > 256 fail with ErrInvalidOptions.
C27_NoAmbiguousChars ==
  /\ (Generated /\ gen.options.ExcludeAmbiguous) =>
       ~ContainsAny(gen.value, AmbiguousChars)
  /\ (gen.status \notin {"idle", "called"}
      /\ (EmptyResolvedSet(gen.options) \/ gen.options.Length <= 0
          \/ gen.options.Length > LengthCap)) =>
       gen.status = "failed"
  /\ gen.status = "failed" => gen.candidates = 0

\* a password is returned on a retry, under options whose classes hold
\* ambiguous characters that had to be removed
C27_Witness ==
  /\ Generated
  /\ gen.options.ExcludeAmbiguous
  /\ gen.options.Include = {"numbers", "symbols"}
  /\ gen.candidates > 1

\* C28: the number of passwords generated before GeneratePassword returns is
\* bounded: the first one and at most MaxAttempts retries.
C28_BoundedAttempts == gen.status # "idle" => gen.candidates <= 1 + MaxAttempts

\* the call made was ValidatePolicy
PolicyChecked == checked.status = "returned" /\ checked.call = "ValidatePolicy"

\* the weights of the predicates of the policy that the password violates
ViolatedWeight(password, policy) ==
  LET one(b) == IF b THEN 1 ELSE 0
      lacks(chars) == \A i \in DOMAIN password : password[i] \notin Range(chars)
      patterns == policy.ForbiddenPatterns
  IN  20 * one(Len(password) < policy.MinLength)
      + 10 * one(policy.MaxLength # 0 /\ Len(password) > policy.MaxLength)
      + 15 * one(policy.RequireLower /\ lacks(LowerChars))
      + 15 * one(policy.RequireUpper /\ lacks(UpperChars))
      + 15 * one(policy.RequireNumbers /\ lacks(NumberChars))
      + 15 * one(policy.RequireSymbols /\ lacks(SymbolChars))
      + 10 * one(/\ policy.MinUniqueChars # 0
                 /\ Cardinality(Range(password)) < policy.MinUniqueChars)
      + 15 * one(/\ policy.MaxRepeatedChars # 0
                 /\ \E i \in DOMAIN password :
                      \A k \in i..(i + policy.MaxRepeatedChars) :
                        k \in DOMAIN password /\ password[k] = password[i])
      + 20 * Cardinality({i \in DOMAIN patterns :
                            Contains(ToLower(password), ToLower(patterns[i]))})

\* C29: ValidatePolicy returns Valid = (len(Violations) = 0) and
\* Score = max(0, 100 - the weights of the violated predicates), so that
\* Score = 100 exactly when Valid; a zero MaxLength, MinUniqueChars or
\* MaxRepeatedChars disables its predicate.
C29_PolicyValidity ==
  PolicyChecked =>
    LET result == checked.result
        policy == checked.policy
        weight == ViolatedWeight(checked.password, policy)
    IN  /\ result.Valid = (Len(result.Violations) = 0)
        /\ result.Score = (IF weight > 100 THEN 0 ELSE 100 - weight)
        /\ (result.Score = 100) = result.Valid
        /\ policy.MaxLength = 0 => "MaxLength" \notin Range(result.Violations)
        /\ policy.MinUniqueChars = 0 =>
             "MinUniqueChars" \notin Range(result.Violations)
        /\ policy.MaxRepeatedChars = 0 =>
             "MaxRepeatedChars" \notin Range(result.Violations)

\* a long password of few characters, one of them in a row, is validated
\* under a policy with the three bounds at zero and found in violation of
\* other predicates
C29_Witness ==
  /\ PolicyChecked
  /\ checked.policy.MaxLength = 0
  /\ checked.policy.MinUniqueChars = 0
  /\ checked.policy.MaxRepeatedChars = 0
  /\ Len(checked.password) > 10
  /\ hasRepeatedChars(checked.password)
  /\ ~checked.result.Valid
  /\ Len(checked.result.Violations) >= 3
  /\ checked.result.Score > 0

\* the call made was CheckStrength
StrengthChecked == checked.status = "returned" /\ checked.call = "CheckStrength"

\* the character classes a password uses
ClassesOf(password) ==
  {class \in Range(CharClasses) : ContainsAny(password, ClassChars(class))}

\* the penalties CheckStrength applies to a password
Penalties(enableDictionaryCheck, password) ==
  LET one(b) == IF b THEN 1 ELSE 0
  IN  10 * one(hasSequentialPattern(password))
      + 10 * one(hasRepeatedChars(password))
      + 10 * one(hasKeyboardPattern(password))
      + 20 * one(enableDictionaryCheck /\ isCommonPassword(password))

\* the password earns the points for its unique characters
UniqueBonus(password) == countUniqueChars(password) >= Len(password) \div 2

\* the score lies in [0, 100] and the level follows the thresholds
ScoreAndLevel(result) ==
  /\ result.Score \in 0..100
  /\ result.Level = StrengthWeak <=> result.Score < 30
  /\ result.Level = StrengthMedium <=> result.Score >= 30 /\ result.Score < 60
  /\ result.Level = StrengthStrong <=> result.Score >= 60 /\ result.Score < 80
  /\ result.Level = StrengthVeryStrong <=> result.Score >= 80

\* C30: of two passwords of the same length the one using all four classes
\* scores at least what the one using a single class scores; of two
\* passwords with the same set of classes the longer scores at least what
\* the shorter scores; the score lies in [0, 100] and the level is Weak
\* below 30, Medium in [30, 60), Strong in [60, 80), VeryStrong from 80.
C30_StrengthMonotonicity ==
  StrengthChecked =>
    /\ ScoreAndLevel(checked.result)
    /\ \A other \in ShortCheckedPasswords :
         LET password == checked.password
             score == checked.result.Score
             otherScore ==
               CheckStrength(checked.enableDictionaryCheck, other).Score
         IN  /\ (/\ Len(password) = Len(other)
                 /\ Cardinality(ClassesOf(password)) = 4
                 /\ Cardinality(ClassesOf(other)) = 1) => score >= otherScore
             /\ (/\ Len(password) = Len(other)
                 /\ Cardinality(ClassesOf(other)) = 4
                 /\ Cardinality(ClassesOf(password)) = 1) => otherScore >= score
             /\ (/\ ClassesOf(password) = ClassesOf(other)
                 /\ Len(password) > Len(other)) => score >= otherScore
             /\ (/\ ClassesOf(password) = ClassesOf(other)
                 /\ Len(other) > Len(password)) => otherScore >= score

\* C30, amended: the comparison by classes holds between passwords that
\* incur the same penalties, the comparison by length between passwords
\* that incur the same penalties and agree on the points for unique
\* characters; the score lies in [0, 100] and the level follows the
\* thresholds.
C30_StrengthMonotonicityAmended ==
  StrengthChecked =>
    /\ ScoreAndLevel(checked.result)
    /\ \A other \in ShortCheckedPasswords :
         LET password == checked.password
             dictionary == checked.enableDictionaryCheck
             score == checked.result.Score
             otherScore == CheckStrength(dictionary, other).Score
             samePenalties ==
               Penalties(dictionary, password) = Penalties(dictionary, other)
             sameBonus == UniqueBonus(password) = UniqueBonus(other)
         IN  /\ (/\ samePenalties
                 /\ Len(password) = Len(other)
                 /\ Cardinality(ClassesOf(password)) = 4
                 /\ Cardinality(ClassesOf(other)) = 1) => score >= otherScore
             /\ (/\ samePenalties
                 /\ Len(password) = Len(other)
                 /\ Cardinality(ClassesOf(other)) = 4
                 /\ Cardinality(ClassesOf(password)) = 1) => otherScore >= score
             /\ (/\ samePenalties /\ sameBonus
                 /\ ClassesOf(password) = ClassesOf(other)
                 /\ Len(password) > Len(other)) => score >= otherScore
             /\ (/\ samePenalties /\ sameBonus
                 /\ ClassesOf(password) = ClassesOf(other)
                 /\ Len(other) > Len(password)) => otherScore >= score

\* a password of four classes is scored, with a password of one class of
\* the same length and the same penalties to compare it with, and a shorter
\* password of the same classes, penalties and points for unique characters
C30_Witness ==
  /\ StrengthChecked
  /\ Cardinality(ClassesOf(checked.password)) = 4
  /\ checked.result.Level = StrengthStrong
  /\ \E other \in ShortCheckedPasswords :
       /\ Len(other) = Len(checked.password)
       /\ Cardinality(ClassesOf(other)) = 1
       /\ Penalties(checked.enableDictionaryCheck, other)
            = Penalties(checked.enableDictionaryCheck, checked.password)
  /\ \E other \in ShortCheckedPasswords :
       /\ Len(other) < Len(checked.password)
       /\ ClassesOf(other) = ClassesOf(checked.password)
       /\ UniqueBonus(other) = UniqueBonus(checked.password)
       /\ Penalties(checked.enableDictionaryCheck, other)
            = Penalties(checked.enableDictionaryCheck, checked.password)

\* the call made was hasher.Hash, one or more times
Hashed == checked.status = "returned" /\ checked.call = "Hash"

\* C31: Hash("") fails with the empty-input error; for every non-empty
\* password P two calls of Hash(P) return different encodings,
\* Verify(P, Hash(P)) is true and Verify(P2, Hash(P)) is false for every
\* P2 # P; Verify returns false for an empty password, an empty hash or a
\* malformed hash.
C31_HashVerifyCorrect ==
  /\ Hashed =>
       LET P == checked.password
           results == checked.results
       IN  /\ P = <<>> =>
                \A i \in DOMAIN results : results[i].err = "password_empty"
           /\ P # <<>> =>
                /\ \A i \in DOMAIN results :
                     /\ results[i].err = "nil"
                     /\ Verify(P, results[i].hash)
                     /\ \A P2 \in HasherPasswords \ {P} :
                          ~Verify(P2, results[i].hash)
                /\ \A i, j \in DOMAIN results :
                     i # j => results[i].hash # results[j].hash
  /\ (/\ checked.status = "returned"
      /\ checked.call = "Verify"
      /\ (checked.password = <<>> \/ checked.hash \in {EmptyHash, JunkHash}))
       => ~checked.result

\* C32: after construction and after any sequence of SetCost calls GetCost()
\* lies in [MinCost, MaxCost]; SetCost(c) with c in the range makes
\* GetCost() = c, and with c out of the range sets the cost to the nearest
\* bound of the range.
C32_CostClamped ==
  /\ manager.cost \in MinCost..MaxCost
  /\ \A cost \in CostArgs : NewPasswordHasher(cost) \in MinCost..MaxCost
  /\ (checked.status = "returned" /\ checked.call = "SetCost") =>
       /\ checked.cost \in MinCost..MaxCost => manager.cost = checked.cost
       /\ checked.cost < MinCost => manager.cost = MinCost
       /\ checked.cost > MaxCost => manager.cost = MaxCost

\* C33: an operation running concurrently with UpdateConfig(new) observes the
\* config, the hashing cost and the dictionary-check flag either all of the
\* old configuration or all of the new one; after UpdateConfig returns the
\* cost of the hasher equals GetConfig().BcryptCost.
C33_ConfigUpdateAtomic ==
  /\ (/\ checked.status = "returned"
      /\ checked.call = "Observe"
      /\ checked.update # <<>>) =>
       LET old == checked.update[1].before
           new == checked.update[1].config
           seen == <<checked.config, checked.cost, checked.enableDictionaryCheck>>
       IN  \/ seen = <<old.config, old.cost, old.enableDictionaryCheck>>
           \/ seen = <<new, new.BcryptCost, new.EnableDictionaryCheck>>
  /\ (checked.status = "returned" /\ checked.call = "UpdateConfig"
      /\ managing = <<>>) =>
       manager.cost = manager.config.BcryptCost

\* a revoked token that still parses and is inside the refresh window
RevokedRefreshable(tokenString) ==
  /\ IsTokenRevoked(Maps, tokenString)
  /\ ParseToken(tokenString, now).err = "nil"
  /\ ~TooEarly(config, tokenString, now)

\* C34: RefreshToken applied to a token that has been revoked but still
\* parses and is inside the refresh window succeeds, the new token validates
\* and the original token remains revoked.
C34_RefreshIgnoresRevocation ==
  \A tokenString \in TokenArgs :
    RevokedRefreshable(tokenString) =>
      LET r == RefreshToken(Maps, config, tokenString, now, nextJTI + 1) IN
        /\ r.err = "nil"
        /\ ValidateToken(r.maps, r.token, now).err = "nil"
        /\ IsTokenRevoked(r.maps, tokenString)

\* C34 amended: where refreshing is allowed and the refresh count of the
\* token is below MaxRefreshCount, RefreshToken applied to a revoked token
\* that still parses and is inside the refresh window succeeds and the
\* original token remains revoked; the new token validates when the current
\* time + DefaultExpiration, truncated to a whole second, is after the
\* current time, and fails validation as expired otherwise.
C34_RefreshIgnoresRevocationWhereAllowed ==
  \A tokenString \in TokenArgs :
    (/\ RevokedRefreshable(tokenString)
     /\ config.AllowRefresh
     /\ Lookup(refreshCounts, tokenString, 0) < config.MaxRefreshCount) =>
      LET r == RefreshToken(Maps, config, tokenString, now, nextJTI + 1) IN
        /\ r.err = "nil"
        /\ ValidateToken(r.maps, r.token, now).err =
             (IF now < NewNumericDate(now + config.DefaultExpiration)
                THEN "nil" ELSE "parse_expired")
        /\ IsTokenRevoked(r.maps, tokenString)

\* a token obtained by refreshing a generated token that had been revoked
\* before is valid, and that token is still revoked
C34_Witness ==
  \E tokenString \in issued :
    /\ lineage[tokenString].depth = 1
    /\ ~lineage[tokenString].chain
    /\ ValidateToken(Maps, tokenString, now).err = "nil"
    /\ IsTokenRevoked(Maps, lineage[tokenString].root)

\* C35: under any interleaving of Generate, Revoke, RevokeAll, Refresh and
\* CleanupExpiredTokens no token string is at once in the revocation map and
\* in userTokens or tokenUsers.
C35_IndexHoldsNoRevoked ==
  \A tokenString \in DOMAIN revokedTokens :
    /\ tokenString \notin DOMAIN tokenUsers
    /\ \A userID \in DOMAIN userTokens :
         tokenString \notin Range(userTokens[userID])

\* C36: no token that is in the revocation map has an entry in the
\* refresh-count map, also while RefreshToken runs concurrently with
\* RevokeToken or RevokeAllUserTokens.
C36_RevokedNotCounted == NoRevokedTokenCounted

\* a RefreshToken call has generated its new token and a revocation running
\* in between has revoked it, while other tokens are in the indices
C35_Witness ==
  /\ refreshing.pc \in {"count", "revoke"}
  /\ IsTokenRevoked(Maps, refreshing.newToken)
  /\ DOMAIN tokenUsers # {}
  /\ DOMAIN revokedTokens # {refreshing.newToken}

\* C37: when RefreshToken(old) succeeds returning new, the refresh-count map
\* holds for new the count recorded for old before the call (0 if none) + 1,
\* holds no entry for old, and the count of no other token changes; a token
\* obtained from GenerateToken has count 0.
C37_RefreshCountInherited ==
  /\ \A tokenString \in TokenArgs :
       LET r == RefreshToken(Maps, config, tokenString, now, nextJTI + 1) IN
         r.err = "nil" =>
           /\ r.token \in DOMAIN r.maps.refreshCounts
           /\ r.maps.refreshCounts[r.token]
                = Lookup(refreshCounts, tokenString, 0) + 1
           /\ tokenString \notin DOMAIN r.maps.refreshCounts
           /\ \A other \in (DOMAIN refreshCounts \cup DOMAIN r.maps.refreshCounts)
                             \ {tokenString, r.token} :
                /\ other \in DOMAIN refreshCounts
                /\ other \in DOMAIN r.maps.refreshCounts
                /\ r.maps.refreshCounts[other] = refreshCounts[other]
  /\ \A userID \in UserIDs :
       LET g == GenerateToken(Maps, config, userID, now, nextJTI + 1) IN
         g.err = "nil" =>
           /\ Lookup(g.maps.refreshCounts, g.token, 0) = 0
           /\ g.maps.refreshCounts = refreshCounts

\* a token refreshed twice: the second refresh found a count of 1 for the
\* token it was given, recorded 2 for the token it returned, and the entry of
\* the first is gone, while another token keeps a count of its own
C37_Witness ==
  \E tokenString \in DOMAIN refreshCounts :
    /\ refreshCounts[tokenString] = 2
    /\ lineage[tokenString].depth = 2
    /\ lineage[tokenString].root \notin DOMAIN refreshCounts
    /\ \E other \in DOMAIN refreshCounts : other # tokenString

\* the stored user a session token names is Active
ActiveUser(userID) ==
  /\ GetUserByID(sysUsers, userID).err = "nil"
  /\ GetUserByID(sysUsers, userID).user.status = 1

\* the Login half of C38: a Login that returns a token returns it for a
\* user whose status is Active when the call is made
C38_LoginOnlyActive ==
  \A username \in Usernames, password \in PasswordArgs :
    LET r == Login(Accounts, username, password, now) IN
      r.err = "nil" => ActiveUser(r.token.user)

\* C38: Login and RefreshToken of authService and loginService return a
\* token only for a user whose status is Active at the time of the call; for
\* a Disabled user both fail and generate nothing.
C38_NoTokenForDisabled ==
  /\ C38_LoginOnlyActive
  /\ \A tokenString \in SessionArgs :
       LET r == SessionRefresh(Accounts, tokenString, now) IN
         r.err = "nil" => ActiveUser(r.token.user)

\* a session token the service has returned that is neither revoked nor
\* expired
LiveSession(tokenString) ==
  /\ tokenString \in sessionTokens
  /\ tokenString \notin sessionRevoked
  /\ now < tokenString.exp

\* C39: ValidateToken of authService and loginService fails for a token whose
\* user is Disabled or deleted now, also when the token is neither revoked
\* nor expired; it succeeds, returning the user, for a live token whose user
\* is there and Active, so it succeeds again as soon as UpdateUser has set
\* the status back to 1; the call writes nothing.
C39_ValidationTracksUser ==
  \A tokenString \in SessionArgs :
    LET v == AuthValidateToken(Accounts, tokenString, now)
        userID == tokenString.user
    IN /\ tokenString \in sessionTokens /\ ~ActiveUser(userID) => v.err # "nil"
       /\ LiveSession(tokenString) /\ ActiveUser(userID) =>
            /\ v.err = "nil"
            /\ v.user = sysUsers[userID]
       /\ LiveSession(tokenString) /\ userID \in Visible(sysUsers) =>
            LET enabled == UpdateUser(sysUsers,
                                      [sysUsers[userID] EXCEPT !.status = 1])
            IN AuthValidateToken([Accounts EXCEPT !.users = enabled.users],
                                 tokenString, now).err = "nil"

\* two live session tokens, one of a user disabled after it was issued and
\* one of a user deleted after it was issued; both are refused
C39_Witness ==
  \E disabled \in sessionTokens, removed \in sessionTokens :
    /\ LiveSession(disabled) /\ LiveSession(removed)
    /\ disabled.user \in Visible(sysUsers)
    /\ sysUsers[disabled.user].status = 2
    /\ removed.user \in DOMAIN sysUsers
    /\ sysUsers[removed.user].deleted
    /\ AuthValidateToken(Accounts, disabled, now).err = "user_disabled"
    /\ AuthValidateToken(Accounts, removed, now).err = "record_not_found"

\* the passwords ChangePassword has set for a user, newest first, cut at k
LastSet(userID, k) ==
  LET set == Reverse(Lookup(changed, userID, <<>>))
  IN  {set[i] : i \in 1..(IF Len(set) < k THEN Len(set) ELSE k)}

\* a ChangePassword that fails as too weak or in history leaves the stored
\* histories as they were
C40_FailureKeepsHistory ==
  \A userID \in 0..1, newPassword \in ChangeArgs :
    LET r == ChangePassword(manager, histories, userID, newPassword, 1, FALSE)
    IN r.err \in {"password_too_weak", "password_in_history"} =>
         r.histories = histories

\* after a successful ChangePassword the stored history of the user holds at
\* most HistoryCount entries
C40_HistoryBounded ==
  \A userID \in DOMAIN changed :
    manager.config.HistoryCount > 0 =>
      Len(Lookup(histories, userID, <<>>)) <= manager.config.HistoryCount

\* C40: with HistoryCount = k > 0, after any sequence of successful
\* ChangePassword calls of a user a further ChangePassword to one of the k
\* passwords set last fails with ErrPasswordInHistory; a call that fails as
\* too weak or in history leaves the history as it was; and after a
\* successful call the stored history holds at most k entries.
C40_ReuseWindow ==
  /\ \A userID \in DOMAIN changed :
       manager.config.HistoryCount > 0 =>
         \A password \in LastSet(userID, manager.config.HistoryCount) :
           ChangePassword(manager, histories, userID, password, 1, FALSE).err
             = "password_in_history"
  /\ C40_FailureKeepsHistory
  /\ C40_HistoryBounded

====
